---------------------------- MODULE Spec2Model ----------------------------
(***************************************************************************)
(* Incremental snapshot-at-the-beginning collector of the Motoko RTS       *)
(* (rts/motoko-rts/src/gc/incremental.rs and its phases and barriers)      *)
(* over a partitioned heap, together with a mutator that allocates and     *)
(* writes pointers through the two barriers.                               *)
(*                                                                         *)
(* Objects are one block each and carry one pointer field.  A value is a   *)
(* heap address (at or above HeapBase) or 0, which stands for every value  *)
(* the collector ignores: scalars and pointers into the static segment.    *)
(* The heap is NumPartitions partitions of PartitionSize blocks.           *)
(***************************************************************************)
EXTENDS Integers, Sequences, FiniteSets, TLC

\* ------------------------------------------------------------------ bounds
NumPartitions == 3        \* partitions of the heap (MAX_PARTITIONS, scaled)
PartitionSize == 2        \* blocks per partition (PARTITION_SIZE, scaled)
NumRoots      == 1        \* mutable boxes in the static root array
MaxStack      == 1        \* pointers the mutator keeps on its call stack
MaxCycles     == 2        \* collection cycles started in one behaviour
LongLimit     == 2        \* LONG_INCREMENT_TIME_LIMIT, scaled
ShortLimit    == 1        \* SHORT_INCREMENT_TIME_LIMIT, scaled
AllocInterval == 2        \* ALLOCATION_INCREMENT_INTERVAL, scaled
MaxMutations  == 5        \* allocations and pointer writes of the mutator in one behaviour

\* ------------------------------------------------------------------ values
HeapBase == 1             \* heap.base_address(): values below it are scalars or static

HeapSize    == NumPartitions * PartitionSize
Addr        == HeapBase .. (HeapBase + HeapSize - 1)
Partitions  == 0 .. (NumPartitions - 1)
RootIdx     == 1 .. NumRoots
BlockSize   == 1

PartOf(a)    == (a - HeapBase) \div PartitionSize
OffsetOf(a)  == (a - HeapBase) % PartitionSize
AddrOf(p, o) == HeapBase + p * PartitionSize + o

\* Value::points_to_or_beyond(heap.base_address())
points_to_or_beyond(v) == v >= HeapBase

FreeBlock == [marked |-> FALSE, forward |-> 0, field |-> 0]
FreePart  == [free |-> 0, marked_space |-> 0, evacuate |-> FALSE]
NoLast    == [op |-> "init", path |-> <<>>, loc |-> <<>>, old |-> 0, remark |-> FALSE,
              log |-> <<>>]

NoCalls   == [cycle |-> 0, total |-> 0]

VARIABLES
  phase,         \* PHASE variant: "Pause", "Mark", "Evacuate", "Update", "Stop"
  mark_stack,    \* MarkState.mark_stack (meaningful in Mark)
  complete,      \* MarkState.complete   (meaningful in Mark)
  iter,          \* HeapIteratorState of Evacuate / Update: [pi, cur]
  heap,          \* Addr -> [marked, forward, field]
  parts,         \* Partitions -> [free, marked_space, evacuate]
  alloc_part,    \* index of the current allocation partition
  roots,         \* fields of the static root boxes
  stack,         \* pointers held on the mutator's call stack
  alloc_count,   \* ALLOCATION_COUNT
  last_occ,      \* LAST_HEAP_OCCUPATION
  cycles,        \* number of cycles started
  mutations,     \* number of allocations and pointer writes made
  trap,          \* "none", or the assertion / fatal error that ended the program
  snapshot,      \* history: present addresses of the objects reachable at start_marking
  satb_missed,   \* history: snapshot objects found unmarked when `complete` was set
  scanned,       \* history: objects whose fields mark_fields visited in this Mark
  pushes,        \* history: Addr -> pushes by mark_object in this Mark
  last,          \* history: the last operation and what it touched
  copied,        \* history: <<copy, field of the original when it was evacuated>>,
                 \*          until the mutator stores to the copy or the cycle ends
  barrier_calls, \* history: allocation_barrier calls made in a running phase, modulo
                 \*          AllocInterval: [cycle: since the cycle started, total: ever]
  walked,        \* history: Addr -> how often the heap iterator of this cycle's
                 \*          Evacuate and Update has handed out the object there
  slicing,       \* the marking of one array, slice by slice (SpecSlicing)
  table,         \* the object table and the dynamic heap above it (SpecTable)
  visiting,      \* the roots handed to visit_roots and what it yielded (SpecRoots)
  region,        \* one region object and its vec_pages blob (SpecRegion)
  stream         \* one stream object, its partition and the phase (SpecStream)

collector_vars ==
  <<phase, mark_stack, complete, iter, heap, parts, alloc_part, roots, stack,
    alloc_count, last_occ, cycles, mutations, trap, snapshot, satb_missed,
    scanned, pushes, last, copied, barrier_calls, walked>>

\* The components that the specifications of the whole collector leave alone.
later_vars == <<visiting, region, stream>>

component_vars == <<slicing, table, later_vars>>

vars == <<collector_vars, component_vars>>

\* The collector's state as one record, threaded through the operators below.
St(limit, opname) ==
  [phase |-> phase, mark_stack |-> mark_stack, complete |-> complete, iter |-> iter,
   heap |-> heap, parts |-> parts, alloc_part |-> alloc_part, roots |-> roots,
   trap |-> trap, steps |-> 0, limit |-> limit,
   snapshot |-> snapshot, satb_missed |-> satb_missed, scanned |-> scanned,
   pushes |-> pushes, copied |-> copied, walked |-> walked,
   last |-> [op |-> opname, path |-> <<>>, loc |-> <<>>, old |-> 0, remark |-> FALSE,
             log |-> <<>>]]

Commit(s) ==
  /\ phase' = s.phase
  /\ mark_stack' = s.mark_stack
  /\ complete' = s.complete
  /\ iter' = s.iter
  /\ heap' = s.heap
  /\ parts' = s.parts
  /\ alloc_part' = s.alloc_part
  /\ roots' = s.roots
  /\ trap' = s.trap
  /\ snapshot' = s.snapshot
  /\ satb_missed' = s.satb_missed
  /\ scanned' = s.scanned
  /\ pushes' = s.pushes
  /\ last' = s.last
  /\ copied' = s.copied
  /\ walked' = s.walked
  /\ UNCHANGED component_vars
\* ------------------------------------------------------------ BoundedTime
tick(s)       == [s EXCEPT !.steps = @ + 1]
is_over(s)    == s.steps > s.limit

\* ------------------------------------------------------------ heap helpers
IsAllocated(h, ps, a) == OffsetOf(a) < ps[PartOf(a)].free

\* Value::forward_if_possible
forward_if_possible(h, v) == IF points_to_or_beyond(v) THEN h[v].forward ELSE v

ZeroPushes == [a \in Addr |-> 0]

ZeroWalks == [a \in Addr |-> [evacuate |-> 0, update |-> 0]]

\* What the mutator sees behind a pointer: the forwarded copy of an evacuated
\* object, the object itself otherwise (also when the block holds no object).
Resolve(h, v) == IF h[v].forward >= HeapBase THEN h[v].forward ELSE v

HeapPointers(vals) == { v \in vals : points_to_or_beyond(v) }

\* Reachability from the roots through fields (resolving forwarding).
RECURSIVE Closure(_, _)
Closure(h, set) ==
  IF { Resolve(h, v) : v \in HeapPointers({ h[a].field : a \in set }) } \subseteq set
  THEN set
  ELSE Closure(h, set \cup { Resolve(h, v) : v \in HeapPointers({ h[a].field : a \in set }) })

RootTargets(h, rs) == { Resolve(h, v) : v \in HeapPointers({ rs[i] : i \in RootIdx }) }

Reachable(h, rs) == Closure(h, RootTargets(h, rs))

\* An assignment to PHASE (the history keeps the variants assigned by the operation).
SetPhase(s, p) == [s EXCEPT !.phase = p, !.last.path = Append(@, p)]

\* The history keeps the calls the operation made: <<name, what the call saw>>.
Log(s, e) == [s EXCEPT !.last.log = Append(@, e)]


\* ------------------------------------------------------------ mark increment
\* Variant: mark_object without the early return on a marked object.
mark_object_unchecked(s, v) ==
  [s EXCEPT !.steps = @ + 1,
            !.heap[v].marked = TRUE,
            !.parts[PartOf(v)].marked_space = @ + BlockSize,
            !.mark_stack = Append(@, v),
            !.pushes[v] = @ + 1]

\* MarkIncrement::mark_object
mark_object(s, v) ==
  IF s.heap[v].marked
  THEN [s EXCEPT !.steps = @ + 1, !.last.remark = TRUE]
  ELSE [s EXCEPT !.steps = @ + 1,
                 !.heap[v].marked = TRUE,
                 !.parts[PartOf(v)].marked_space = @ + BlockSize,
                 !.mark_stack = Append(@, v),
                 !.pushes[v] = @ + 1]

\* visit_roots: the fields of the static root boxes that point into the heap
RootFieldVisited(s, i) == points_to_or_beyond(s.roots[i])

\* MarkIncrement::mark_roots
RECURSIVE mark_roots_from(_, _)
mark_roots_from(s, i) ==
  IF i > NumRoots THEN s
  ELSE mark_roots_from(IF RootFieldVisited(s, i)
                       THEN tick(mark_object(s, s.roots[i]))
                       ELSE s, i + 1)

mark_roots(s) == mark_roots_from(s, 1)

\* Variant: the fields of a scanned object are not followed.
mark_field_not_followed(s, v) == s

\* MarkIncrement::mark_fields (visit_pointer_fields yields heap pointers only)
mark_field(s, v) == IF points_to_or_beyond(v) THEN mark_object(s, v) ELSE s

mark_fields(s, obj) == mark_field([s EXCEPT !.scanned = @ \cup {obj}], s.heap[obj].field)

\* MarkIncrement::complete_marking
complete_marking(s) ==
  [Log(s, <<"complete_marking", s.mark_stack = <<>>>>) EXCEPT
     !.complete = TRUE,
     !.satb_missed = { a \in s.snapshot : ~s.heap[a].marked }]

\* MarkIncrement::run
\* MarkStack::pop: the value popped and the stack left
Top(stk)    == stk[Len(stk)]
Popped(stk) == SubSeq(stk, 1, Len(stk) - 1)

RECURSIVE mark_loop(_)
\* Variant: an increment that runs out of time forgets the rest of its stack.
mark_next_forgetting(s) ==
  IF is_over(s) THEN [s EXCEPT !.mark_stack = <<>>] ELSE mark_loop(s)

mark_next(s) == IF is_over(s) THEN s ELSE mark_loop(s)

mark_loop(s) ==
  IF s.mark_stack = <<>> THEN complete_marking(s)
  ELSE mark_next(tick(mark_fields([s EXCEPT !.mark_stack = Popped(@)], Top(s.mark_stack))))

mark_run(s) == IF s.complete THEN s ELSE mark_loop(s)

\* ------------------------------------------------------------ partitioned heap
occupied_size(ps) ==
  LET RECURSIVE Sum(_)
      Sum(p) == IF p >= NumPartitions THEN 0 ELSE ps[p].free + Sum(p + 1)
  IN Sum(0)

IsFresh(ps, ap, p) == p # ap /\ ps[p].free = 0 /\ ~ps[p].evacuate

\* PartitionedHeap::allocate: the partition the next block goes to (bump the
\* allocation partition, or open a fresh one); NumPartitions when none is left.
AllocTarget(ps, ap) ==
  IF ps[ap].free + BlockSize <= PartitionSize THEN ap
  ELSE IF \E p \in Partitions : IsFresh(ps, ap, p)
       THEN CHOOSE p \in Partitions :
              /\ IsFresh(ps, ap, p)
              /\ \A q \in Partitions : IsFresh(ps, ap, q) => p <= q
       ELSE NumPartitions

CanAllocate(s) == AllocTarget(s.parts, s.alloc_part) < NumPartitions

BumpAddress(ps, p) == AddrOf(p, ps[p].free)

AllocAddress(s) == BumpAddress(s.parts, AllocTarget(s.parts, s.alloc_part))

\* Memory::alloc_words: the state after the bump (the block itself is written by the caller)
Bump(s, p) == [s EXCEPT !.parts[p].free = @ + BlockSize, !.alloc_part = p]

alloc_words(s) == Bump(s, AllocTarget(s.parts, s.alloc_part))

\* Variant: the allocation partition can be selected as well.
is_evacuation_candidate_any(ps, ap, p) ==
  /\ ps[p].free > 0
  /\ 2 * ps[p].marked_space <= PartitionSize

\* PartitionedHeap::plan_evacuations
is_evacuation_candidate(ps, ap, p) ==
  /\ p # ap
  /\ ps[p].free > 0
  /\ 2 * ps[p].marked_space <= PartitionSize

plan_evacuations(s) ==
  [Log(s, <<"plan_evacuations">>) EXCEPT !.parts = [p \in Partitions |->
      [s.parts[p] EXCEPT !.evacuate = is_evacuation_candidate(s.parts, s.alloc_part, p)]]]

\* PartitionedHeap::free_evacuated_partitions
free_evacuated_partitions(s) ==
  [s EXCEPT !.parts = [p \in Partitions |->
                         IF s.parts[p].evacuate THEN FreePart ELSE s.parts[p]],
            !.heap  = [a \in Addr |->
                         IF s.parts[PartOf(a)].evacuate THEN FreeBlock ELSE s.heap[a]]]

\* PartitionedHeapIterator: skip exhausted and empty partitions
RECURSIVE IterSkip(_, _)
IterSkip(ps, it) ==
  IF it.pi >= NumPartitions THEN [pi |-> NumPartitions, cur |-> 0]
  ELSE IF it.cur >= ps[it.pi].free THEN IterSkip(ps, [pi |-> it.pi + 1, cur |-> 0])
  ELSE it

NewIter == [pi |-> 0, cur |-> 0]

\* Variant: the walker starts at the first partition in every increment.
resume_at_start(s) == [s EXCEPT !.iter = IterSkip(s.parts, NewIter)]

resume(s)         == [s EXCEPT !.iter = IterSkip(s.parts, s.iter)]
next_partition(s) == [s EXCEPT !.iter = IterSkip(s.parts, [pi |-> s.iter.pi + 1, cur |-> 0])]
next_object(s)    == [s EXCEPT !.iter = IterSkip(s.parts, [pi |-> s.iter.pi, cur |-> s.iter.cur + BlockSize])]
completed(it)     == it.pi >= NumPartitions
current_object(s) == AddrOf(s.iter.pi, s.iter.cur)

\* ------------------------------------------------------------ evacuation increment
\* EvacuationIncrement::evacuate_object
CopyTo(s, original, new) ==
  [Log(s, <<"evacuate_object", original, s.heap[original].forward # original,
            s.heap[original].marked>>)
     EXCEPT !.copied = @ \cup {<<new, s.heap[original].field>>},
            !.heap[new] = [s.heap[original] EXCEPT !.forward = new],
            !.heap[original].forward = new,
            !.snapshot = IF original \in @ THEN (@ \ {original}) \cup {new} ELSE @]

\* Variant: the copy gets the header of the original but not its field.
evacuate_header_only(s, original) ==
  IF ~CanAllocate(s) THEN [s EXCEPT !.trap = "out_of_memory"]
  ELSE [CopyTo(alloc_words(s), original, AllocAddress(s)) EXCEPT
          !.heap[AllocAddress(s)].field = 0]

evacuate_object(s, original) ==
  IF ~CanAllocate(s) THEN [s EXCEPT !.trap = "out_of_memory"]
  ELSE CopyTo(alloc_words(s), original, AllocAddress(s))

\* Variant: every object of the partition is evacuated, marked or not.
evacuate_unconditionally(s, original) == evacuate_object(s, original)

\* EvacuationIncrement::evacuate_partition
evacuate_if_marked(s, original) ==
  IF s.heap[original].marked THEN evacuate_object(s, original) ELSE s

RECURSIVE evacuate_partition(_, _)
evacuate_partition(s, idx) ==
  IF s.trap # "none" \/ s.iter.pi # idx \/ is_over(s) THEN s
  ELSE evacuate_partition(
         tick(next_object(evacuate_if_marked(
                [s EXCEPT !.walked[current_object(s)].evacuate = @ + 1],
                current_object(s)))),
         idx)

\* EvacuationIncrement::run
RECURSIVE evacuation_loop(_)
evacuation_next(s) == IF is_over(s) THEN s ELSE evacuation_loop(s)

evacuation_loop(s) ==
  IF completed(s.iter) \/ s.trap # "none" THEN s
  ELSE IF s.parts[s.iter.pi].evacuate
       THEN evacuation_next(evacuate_partition(s, s.iter.pi))
       ELSE evacuation_loop(next_partition(s))

evacuation_run(s) == evacuation_loop(resume(s))

\* ------------------------------------------------------------ update increment
\* UpdateIncrement::update_roots
update_roots(s) ==
  [s EXCEPT !.roots = [i \in RootIdx |-> forward_if_possible(s.heap, s.roots[i])]]

\* Variant: the fields are forwarded but the mark bit stays.
update_object_keeping_mark(s, a) ==
  IF s.heap[a].marked
  THEN [s EXCEPT !.heap[a].field = forward_if_possible(s.heap, @)]
  ELSE s

\* UpdateIncrement: one live object: forward its pointer field, clear its mark bit
update_object(s, a) ==
  IF s.heap[a].marked
  THEN [s EXCEPT !.heap[a].marked = FALSE,
                 !.heap[a].field = forward_if_possible(s.heap, @)]
  ELSE s

\* UpdateIncrement::run
RECURSIVE update_loop(_)
update_loop(s) ==
  IF completed(s.iter) \/ is_over(s) THEN s
  ELSE IF s.parts[s.iter.pi].evacuate THEN update_loop(next_partition(s))
  ELSE update_loop(tick(next_object(update_object(
                     [s EXCEPT !.walked[current_object(s)].update = @ + 1],
                     current_object(s)))))

update_run(s) == update_loop(resume(s))


\* ------------------------------------------------------------ IncrementalGC
\* Leaving Mark drops the MarkState (and the history kept about it).
DropMarkState(s) ==
  [s EXCEPT !.mark_stack = <<>>, !.complete = FALSE, !.scanned = {}, !.pushes = ZeroPushes]

\* IncrementalGC::increment
increment(s) ==
  CASE s.phase = "Mark"     -> mark_run(s)
    [] s.phase = "Evacuate" -> evacuation_run(s)
    [] s.phase = "Update"   -> update_run(s)
    [] OTHER                -> s

\* IncrementalGC::start_marking
start_marking(s) ==
  mark_roots([SetPhase(s, "Mark") EXCEPT
                !.mark_stack = <<>>, !.complete = FALSE,
                !.scanned = {}, !.pushes = ZeroPushes, !.satb_missed = {},
                !.snapshot = Reachable(s.heap, s.roots)])

mark_completed(s) == s.phase = "Mark" /\ s.complete

\* IncrementalGC::start_evacuating
start_evacuating(s) ==
  [DropMarkState(SetPhase(plan_evacuations(
      Log(s, <<"start_evacuating", s.phase = "Mark" /\ s.complete, s.mark_stack = <<>>>>)),
    "Evacuate")) EXCEPT !.iter = NewIter, !.walked = ZeroWalks]

\* Variant: the evacuation counts as completed once an increment has run.
evacuation_completed_after_increment(s) == s.phase = "Evacuate"

evacuation_completed(s) == s.phase = "Evacuate" /\ completed(s.iter)

\* Variant: start_updating without update_roots.
start_updating_without_roots(s) == [SetPhase(s, "Update") EXCEPT !.iter = NewIter]

\* IncrementalGC::start_updating
start_updating(s) ==
  update_roots([SetPhase(s, "Update") EXCEPT !.iter = NewIter])

\* Variant: the update increment never reports completion.
updating_never_completed(s) == FALSE

updating_completed(s) == s.phase = "Update" /\ completed(s.iter)

\* History: the copies the mutator has not stored to, with the field of their
\* original and what forwarding makes of it at the end of the cycle.
Evacuated(s) ==
  { <<e[1], e[2], forward_if_possible(s.heap, e[2])>> : e \in s.copied }

\* History: the partitions flagged for evacuation.
Flagged(s) == { p \in Partitions : s.parts[p].evacuate }

\* Variant: the run is completed without freeing the evacuated partitions.
complete_run_without_free(s) ==
  [SetPhase(Log(s, <<"complete_run", Evacuated(s), Flagged(s)>>), "Pause")
     EXCEPT !.iter = NewIter, !.copied = {}, !.walked = ZeroWalks]

\* IncrementalGC::complete_run
complete_run(s) ==
  [SetPhase(free_evacuated_partitions(Log(s, <<"complete_run", Evacuated(s), Flagged(s)>>)),
            "Pause")
     EXCEPT !.iter = NewIter, !.copied = {}, !.walked = ZeroWalks]

\* Variant: a stopped collector is restarted like a pausing one.
ecsi_start_from_stop(s) ==
  increment(IF s.phase \in {"Pause", "Stop"} THEN start_marking(s) ELSE s)

\* IncrementalGC::empty_call_stack_increment, one definition per statement
ecsi_start(s) == increment(IF s.phase = "Pause" THEN start_marking(s) ELSE s)

\* Variant: Evacuate starts as soon as an increment has run in Mark.
ecsi_mark_completed_early(s) ==
  IF s.phase = "Mark" THEN increment(start_evacuating(s)) ELSE s

ecsi_mark_completed(s) ==
  IF mark_completed(s) THEN increment(start_evacuating(s)) ELSE s

\* Variant: the run is completed right after the evacuation, without Update.
ecsi_evacuation_completed_no_update(s) ==
  IF s.trap = "none" /\ evacuation_completed(s) THEN complete_run(s) ELSE s

ecsi_evacuation_completed(s) ==
  IF s.trap = "none" /\ evacuation_completed(s) THEN increment(start_updating(s)) ELSE s

ecsi_updating_completed(s) ==
  IF s.trap = "none" /\ updating_completed(s) THEN complete_run(s) ELSE s

empty_call_stack_increment(s) ==
  ecsi_updating_completed(ecsi_evacuation_completed(ecsi_mark_completed(ecsi_start(s))))

\* ------------------------------------------------------------ barriers
\* Variant: a barrier that marks nothing.
pre_write_barrier_disabled(s, overwritten_value) == s

\* Variant: a barrier that is effective in every phase.
pre_write_barrier_every_phase(s, overwritten_value) ==
  IF points_to_or_beyond(overwritten_value) THEN mark_object(s, overwritten_value) ELSE s

\* pre_write_barrier
pre_write_barrier(s, overwritten_value) ==
  IF s.phase = "Mark" /\ points_to_or_beyond(overwritten_value)
  THEN IF ~s.complete
       THEN mark_object(s, overwritten_value)
       ELSE IF s.heap[overwritten_value].marked THEN s
            ELSE [s EXCEPT !.trap = "pre_write_barrier"]
  ELSE s

\* A location is a static root box <<"root", i>> or the field of an object <<"field", a>>.
ReadLoc(s, loc) == IF loc[1] = "root" THEN s.roots[loc[2]] ELSE s.heap[loc[2]].field

StoreLoc(s, loc, v) ==
  IF loc[1] = "root" THEN [s EXCEPT !.roots[loc[2]] = v]
  ELSE [s EXCEPT !.heap[loc[2]].field = v,
                 !.copied = { e \in @ : e[1] # loc[2] }]

\* Variant: the store without forwarding resolution.
StorePlain(s, loc, value) ==
  IF s.trap # "none" THEN s ELSE StoreLoc(s, loc, value)

\* internal_write_with_barrier
StoreForwarded(s, loc, value) ==
  IF s.trap # "none" THEN s ELSE StoreLoc(s, loc, forward_if_possible(s.heap, value))

internal_write_with_barrier(s, loc, value) ==
  StoreForwarded(pre_write_barrier(s, ReadLoc(s, loc)), loc, value)

\* Variant: forwarding is resolved in Update only.
write_with_barrier_resolving_in_update(s, loc, value) ==
  IF s.phase = "Update" THEN internal_write_with_barrier(s, loc, value)
  ELSE StorePlain(pre_write_barrier(s, ReadLoc(s, loc)), loc, value)

\* write_with_barrier
write_with_barrier(s, loc, value) ==
  IF s.phase = "Pause" THEN StoreLoc(s, loc, value)
  ELSE internal_write_with_barrier(s, loc, value)

\* Variant: the new object is accounted as marked but its mark bit is not set.
mark_new_allocation_no_bit(s, new_object) ==
  [s EXCEPT !.parts[PartOf(new_object)].marked_space = @ + BlockSize]

\* mark_new_allocation
mark_new_allocation(s, new_object) ==
  IF s.heap[new_object].marked THEN [s EXCEPT !.trap = "mark_new_allocation"]
  ELSE [s EXCEPT !.heap[new_object].marked = TRUE,
                 !.parts[PartOf(new_object)].marked_space = @ + BlockSize]

\* update_new_allocation
update_new_allocation(s, new_object) ==
  [s EXCEPT !.heap[new_object].field = forward_if_possible(s.heap, @)]

running(p) == p \in {"Mark", "Evacuate", "Update"}

\* Variant: new objects are marked in Update as well.
post_allocation_barrier_marking(s, new_object) ==
  IF running(s.phase) THEN mark_new_allocation(s, new_object) ELSE s

\* post_allocation_barrier
post_allocation_barrier(s, new_object) ==
  CASE s.phase \in {"Mark", "Evacuate"} -> mark_new_allocation(s, new_object)
    [] s.phase = "Update"               -> update_new_allocation(s, new_object)
    [] OTHER                            -> s

\* Variant: an increment on every allocation made while the collector runs.
allocation_increment_due_always(p, c) == running(p)

\* allocation_increment: the counter after the call, and whether an increment runs
allocation_count_after(p, c) ==
  IF running(p) THEN (IF c + 1 = AllocInterval THEN 0 ELSE c + 1) ELSE c

allocation_increment_due(p, c) == running(p) /\ c + 1 = AllocInterval

\* Variant: the allocation increment runs a full empty_call_stack_increment.
allocation_increment_driving(s, c) ==
  IF s.trap = "none" /\ allocation_increment_due(s.phase, c)
  THEN empty_call_stack_increment([s EXCEPT !.steps = 0])
  ELSE s

allocation_increment(s, c) ==
  IF s.trap = "none" /\ allocation_increment_due(s.phase, c)
  THEN increment(Log([s EXCEPT !.steps = 0], <<"allocation_increment", s.limit>>))
  ELSE s

\* allocation_barrier / internal_allocation_barrier
internal_allocation_barrier(s, c, new_object) ==
  allocation_increment(post_allocation_barrier(s, new_object), c)

allocation_barrier(s, c, new_object) ==
  IF s.phase # "Pause" THEN internal_allocation_barrier(s, c, new_object) ELSE s

\* ------------------------------------------------------------ scheduling
\* usize arithmetic wraps; the word is scaled to 16 bits, far above any occupation here
WrapUsize(n) == n % (2^16)

\* CRITICAL_LIMIT = usize::MAX - 2 * PARTITION_SIZE, with the address space scaled
\* to the heap of this model
CriticalLimit == HeapSize - 2 * PartitionSize

\* should_start
should_start_at(occupation, absolute_growth) ==
  \/ /\ occupation > 0
     /\ 100 * absolute_growth > 33 * occupation
     /\ occupation >= PartitionSize
  \/ occupation > CriticalLimit

should_start ==
  should_start_at(occupied_size(parts), WrapUsize(occupied_size(parts) - last_occ))

\* ------------------------------------------------------------ initial state
\* No array is being marked.
NoSlicing == [len |-> 0]

\* No object table: the collector forwards in place.
NoTable == [length |-> 0]

\* No roots are being visited.
NoVisiting == [static_roots |-> <<>>]

\* No region has been made.
NoRegion == [page_count |-> 0]

\* No stream has been allocated.
NoStream == [len |-> 0]

LaterIdle == visiting = NoVisiting /\ region = NoRegion /\ stream = NoStream

ComponentsIdle == slicing = NoSlicing /\ table = NoTable /\ LaterIdle

InitCollector ==
  /\ phase = "Pause"
  /\ mark_stack = <<>>
  /\ complete = FALSE
  /\ iter = NewIter
  /\ heap = [a \in Addr |-> FreeBlock]
  /\ parts = [p \in Partitions |-> FreePart]
  /\ alloc_part = 0
  /\ roots = [i \in RootIdx |-> 0]
  /\ stack = {}
  /\ alloc_count = 0
  /\ last_occ = 0
  /\ cycles = 0
  /\ mutations = 0
  /\ trap = "none"
  /\ snapshot = {}
  /\ satb_missed = {}
  /\ scanned = {}
  /\ pushes = ZeroPushes
  /\ last = NoLast
  /\ copied = {}
  /\ walked = ZeroWalks
  /\ barrier_calls = NoCalls

Init == InitCollector /\ ComponentsIdle

\* A heap the mutator has populated before the first cycle, its call stack empty
\* again: partition 0 is full, with an object that points to itself and is held
\* by the root and otherwise garbage; partition 1 is the allocation partition
\* and holds one garbage object. (Alloc, Write, Write, Alloc, .., Alloc, Return
\* lead to it from Init.) Behaviours that start here have two mutations left.
PopulatedHeap ==
  [a \in Addr |->
     IF a = AddrOf(0, 0) THEN [marked |-> FALSE, forward |-> a, field |-> a]
     ELSE IF PartOf(a) = 0 \/ a = AddrOf(1, 0)
          THEN [marked |-> FALSE, forward |-> a, field |-> 0]
          ELSE FreeBlock]

PopulatedParts ==
  [p \in Partitions |->
     IF p = 0 THEN [FreePart EXCEPT !.free = PartitionSize]
     ELSE IF p = 1 THEN [FreePart EXCEPT !.free = BlockSize]
     ELSE FreePart]

InitPopulated ==
  /\ phase = "Pause"
  /\ mark_stack = <<>>
  /\ complete = FALSE
  /\ iter = NewIter
  /\ heap = PopulatedHeap
  /\ parts = PopulatedParts
  /\ alloc_part = 1
  /\ roots = [i \in RootIdx |-> IF i = 1 THEN AddrOf(0, 0) ELSE 0]
  /\ stack = {}
  /\ alloc_count = 0
  /\ last_occ = 0
  /\ cycles = 0
  /\ mutations = MaxMutations - 2
  /\ trap = "none"
  /\ snapshot = {}
  /\ satb_missed = {}
  /\ scanned = {}
  /\ pushes = ZeroPushes
  /\ last = [NoLast EXCEPT !.op = "mutator"]
  /\ copied = {}
  /\ walked = ZeroWalks
  /\ barrier_calls = NoCalls
  /\ ComponentsIdle

\* ------------------------------------------------------------ collector entry points
\* incremental_gc (with record_increment_start); only called on an empty call stack
incremental_gc ==
  /\ trap = "none"
  /\ stack = {}
  /\ phase = "Pause" => cycles < MaxCycles
  /\ Commit(empty_call_stack_increment(St(LongLimit, "incremental_gc")))
  /\ last_occ' = IF phase = "Pause" THEN occupied_size(parts) ELSE last_occ
  /\ cycles' = IF phase = "Pause" THEN cycles + 1 ELSE cycles
  /\ barrier_calls' = IF phase = "Pause" THEN [barrier_calls EXCEPT !.cycle = 0]
                      ELSE barrier_calls
  /\ UNCHANGED <<stack, alloc_count, mutations>>

\* schedule_incremental_gc
schedule_incremental_gc ==
  /\ running(phase) \/ should_start
  /\ incremental_gc

\* stop_gc_on_upgrade
stop_gc_on_upgrade ==
  /\ trap = "none"
  /\ Commit(DropMarkState(SetPhase(St(0, "stop_gc_on_upgrade"), "Stop")))
  /\ UNCHANGED <<stack, alloc_count, last_occ, cycles, mutations, barrier_calls>>

\* ------------------------------------------------------------ mutator
\* The values the mutator can store: a scalar or static pointer, or what its stack holds.
Storable == {0} \cup stack

\* The locations the mutator can address: root boxes and fields of objects on
\* its stack (every object access resolves the forwarding pointer first).
Locations ==
  { <<"root", i>> : i \in RootIdx } \cup { <<"field", heap[a].forward>> : a \in stack }

Keep == { k \in SUBSET stack : Cardinality(k) < MaxStack }

MutatorLast == [NoLast EXCEPT !.op = "mutator"]

\* The mutator reads a pointer from a location onto its stack.
Load ==
  /\ trap = "none"
  /\ \E loc \in Locations, k \in Keep :
       /\ points_to_or_beyond(ReadLoc(St(0, "load"), loc))
       /\ stack' = k \cup {ReadLoc(St(0, "load"), loc)}
  /\ last' = MutatorLast
  /\ UNCHANGED <<phase, mark_stack, complete, iter, heap, parts, alloc_part, roots,
                 alloc_count, last_occ, cycles, mutations, trap, snapshot, satb_missed,
                 scanned, pushes, copied, barrier_calls, walked, component_vars>>

\* The mutator's call returns: its stack is empty again.
Return ==
  /\ trap = "none"
  /\ stack # {}
  /\ stack' = {}
  /\ last' = MutatorLast
  /\ UNCHANGED <<phase, mark_stack, complete, iter, heap, parts, alloc_part, roots,
                 alloc_count, last_occ, cycles, mutations, trap, snapshot, satb_missed,
                 scanned, pushes, copied, barrier_calls, walked, component_vars>>

\* The mutator stores a value through write_with_barrier.
Write ==
  /\ trap = "none"
  /\ mutations < MaxMutations
  /\ mutations' = mutations + 1
  /\ \E loc \in Locations, value \in Storable :
       Commit(write_with_barrier(
                [St(0, "write_with_barrier") EXCEPT
                   !.last.log = << <<"write_with_barrier", value>> >>,
                   !.last.loc = loc,
                   !.last.old = ReadLoc(St(0, "write_with_barrier"), loc)],
                loc, value))
  /\ UNCHANGED <<stack, alloc_count, last_occ, cycles, barrier_calls>>
\* A freshly allocated and initialised object: unmarked, self-forwarding.
NewObject(s, new, init) ==
  [alloc_words(s) EXCEPT !.heap[new] = [marked |-> FALSE, forward |-> new, field |-> init],
                         !.last.loc = <<"field", new>>, !.last.old = init]

\* The mutator allocates an object, initialises its field and calls allocation_barrier.
Alloc ==
  /\ trap = "none"
  /\ mutations < MaxMutations
  /\ mutations' = mutations + 1
  /\ CanAllocate(St(ShortLimit, "allocation_barrier"))
  /\ \E init \in Storable, k \in Keep, new \in {AllocAddress(St(ShortLimit, "allocation_barrier"))} :
       /\ Commit(allocation_barrier(
                   NewObject(St(ShortLimit, "allocation_barrier"), new, init),
                   alloc_count, new))
       /\ stack' = k \cup {new}
  /\ alloc_count' = IF phase # "Pause" THEN allocation_count_after(phase, alloc_count)
                    ELSE alloc_count
  /\ barrier_calls' = IF running(phase)
                      THEN [cycle |-> (barrier_calls.cycle + 1) % AllocInterval,
                            total |-> (barrier_calls.total + 1) % AllocInterval]
                      ELSE barrier_calls
  /\ UNCHANGED <<last_occ, cycles>>

Next ==
  \/ incremental_gc
  \/ schedule_incremental_gc
  \/ stop_gc_on_upgrade
  \/ Load
  \/ Return
  \/ Write
  \/ Alloc

Spec == Init /\ [][Next]_vars

\* incremental_gc can be called: the program runs and the call stack is empty.
GcCallable == trap = "none" /\ stack = {} /\ (phase = "Pause" => cycles < MaxCycles)

\* Strong fairness of incremental_gc, written with the history of the last
\* operation: if incremental_gc can be called again and again, it is called
\* again and again.
GcFairness == <>[]~GcCallable \/ []<><<last'.op = "incremental_gc">>_vars

\* Spec with a scheduler that lets every call of the mutator return and invokes
\* empty_call_stack_increment again and again.
SpecFair == Init /\ [][Next]_vars /\ WF_vars(Return) /\ GcFairness

\* The behaviours of Spec and those that start from the populated heap.
SpecPopulated == (Init \/ InitPopulated) /\ [][Next]_vars


\* ------------------------------------------------------------ array slicing
\* The marking of one array whose elements are scalars (0) or pointers (1) to
\* one object without fields, as MarkIncrement runs it slice by slice.
SliceIncrement == 3
MaxArrayLen == 7

\* Object tags: TAG_ARRAY, and the slice starts from TAG_ARRAY_SLICE_MIN on
\* (SLICE_INCREMENT >= TAG_ARRAY_SLICE_MIN).
TagArray == 1
TagArraySliceMin == 2

Elements == UNION { [1..n -> {0, 1}] : n \in 0..MaxArrayLen }

NewSlicing(elements, limit) ==
  [len |-> Len(elements), elems |-> elements, tag |-> TagArray,
   marked |-> [o \in {"array", "leaf"} |-> FALSE],
   mark_stack |-> <<>>, complete |-> FALSE, steps |-> 0, limit |-> limit,
   visits |-> [i \in 1..Len(elements) |-> 0],
   last |-> [op |-> "none", object |-> "none", start |-> 0, stop |-> 0]]

\* BoundedTime::advance
advance(a, amount) == [a EXCEPT !.steps = @ + amount]

\* MarkIncrement::mark_object
slicing_mark_object(a, o) ==
  IF a.marked[o] THEN tick(a)
  ELSE [tick(a) EXCEPT !.marked[o] = TRUE, !.mark_stack = Append(@, o)]

\* visit_pointer_fields: the slice of an array starts where its tag says
slice_start(a) == IF a.tag >= TagArraySliceMin THEN a.tag ELSE 0

\* A slice that runs to the end of the array whatever its length.
slice_stop_unbounded(a) == a.len

\* slice_array: the end of the slice (its result) ...
slice_stop(a) ==
  IF a.len - slice_start(a) > SliceIncrement
  THEN slice_start(a) + SliceIncrement
  ELSE a.len

\* ... and the tag it leaves: the start of the next slice, or TAG_ARRAY again
slice_array(a) ==
  [a EXCEPT !.tag = IF a.len - slice_start(a) > SliceIncrement
                    THEN slice_start(a) + SliceIncrement
                    ELSE TagArray,
            !.marked["array"] = TRUE]

\* mark_fields, array closure: the array goes back on the mark stack while its
\* tag holds a slice start
push_slice(a) ==
  IF a.tag >= TagArraySliceMin THEN [a EXCEPT !.mark_stack = Append(@, "array")] ELSE a

\* The count by the remainder of the length, as MarkIncrement of mark_phase.rs has it.
slice_time_by_remainder(len, start, stop) ==
  IF len - start > SliceIncrement THEN SliceIncrement ELSE len % SliceIncrement

\* mark_fields, array closure: gc.time.advance((length - slice_start) as usize)
slice_time(len, start, stop) == stop - start

\* visit_pointer_fields: element i (from 0) of the slice, marked if it is a pointer
visit_element(a, i) ==
  IF a.elems[i + 1] = 1
  THEN slicing_mark_object([a EXCEPT !.visits[i + 1] = @ + 1], "leaf")
  ELSE [a EXCEPT !.visits[i + 1] = @ + 1]

RECURSIVE visit_slice(_, _, _)
visit_slice(a, i, stop) ==
  IF i >= stop THEN a ELSE visit_slice(visit_element(a, i), i + 1, stop)

\* mark_fields
slicing_mark_fields(a, o) ==
  IF o = "leaf" THEN [a EXCEPT !.last = [op |-> "mark_fields", object |-> o,
                                         start |-> 0, stop |-> 0]]
  ELSE visit_slice(
         advance(push_slice(slice_array(
                   [a EXCEPT !.last = [op |-> "mark_fields", object |-> o,
                                       start |-> slice_start(a),
                                       stop |-> slice_stop(a)]])),
                 slice_time(a.len, slice_start(a), slice_stop(a))),
         slice_start(a), slice_stop(a))

\* mark_roots: the array is held by a root
slicing_mark_roots ==
  /\ slicing.last.op = "none"
  /\ slicing' = [tick(slicing_mark_object(slicing, "array")) EXCEPT !.last.op = "mark_roots"]
  /\ UNCHANGED <<collector_vars, table, later_vars>>

\* run: one turn of the loop, taken while the time of the increment is not over
slicing_pop ==
  /\ slicing.last.op # "none"
  /\ ~slicing.complete
  /\ ~is_over(slicing)
  /\ slicing.mark_stack # <<>>
  /\ slicing' = tick(slicing_mark_fields(
                       [slicing EXCEPT !.mark_stack = SubSeq(@, 1, Len(@) - 1)],
                       slicing.mark_stack[Len(slicing.mark_stack)]))
  /\ UNCHANGED <<collector_vars, table, later_vars>>

\* run: the mark stack is empty, complete_marking
slicing_complete ==
  /\ slicing.last.op # "none"
  /\ ~slicing.complete
  /\ ~is_over(slicing)
  /\ slicing.mark_stack = <<>>
  /\ slicing' = [slicing EXCEPT !.complete = TRUE, !.last.op = "complete_marking"]
  /\ UNCHANGED <<collector_vars, table, later_vars>>

\* The next increment, with a BoundedTime of its own.
slicing_increment ==
  /\ ~slicing.complete
  /\ is_over(slicing)
  /\ slicing' = [slicing EXCEPT !.steps = 0, !.last.op = "increment"]
  /\ UNCHANGED <<collector_vars, table, later_vars>>

InitSlicing ==
  /\ InitCollector
  /\ slicing \in { NewSlicing(e, l) : e \in Elements, l \in {ShortLimit, LongLimit} }
  /\ table = NoTable
  /\ LaterIdle

NextSlicing ==
  \/ slicing_mark_roots
  \/ slicing_pop
  \/ slicing_complete
  \/ slicing_increment

SpecSlicing == InitSlicing /\ [][NextSlicing]_vars

\* ------------------------------------------------------------ object table
\* The memory from the table base on: the object table, then the dynamic heap.
\* Addresses are in bytes, with WORD_SIZE scaled to 2.
WordSize == 2
TableBase == 2
MaxWords == 7
MaxBlockWords == 2

MemEnd == TableBase + MaxWords * WordSize
Cells == { TableBase + w * WordSize : w \in 0..(MaxWords - 1) }
Indices == 0..(MaxWords - 1)

\* types.rs: skew, unskew, NULL_OBJECT_ID, is_object_id, has_object_header
skew(p) == p - 1
unskew(v) == v + 1
NullObjectId == skew(0)
is_object_id(v) == v % 2 = 1 /\ v # NullObjectId
has_object_header(tag) == tag = "object"

FREE_STACK_END == NullObjectId

NoBlock == [tag |-> "none", size |-> 0, id |-> NullObjectId, data |-> 0]

NoGrowth == [grown |-> FALSE]

NoTableOp == [op |-> "none", id |-> NullObjectId, address |-> 0, growth |-> NoGrowth]

\* ObjectTable::end
end(t) == t.base + t.length * WordSize

\* An object id that is the address of the slot itself, not skewed.
index_to_object_id_unskewed(t, index) == t.base + index * WordSize

\* ObjectTable::index_to_object_id
index_to_object_id(t, index) == skew(t.base + index * WordSize)

\* ObjectTable::get_element: the table slot an object id points to
get_element(t, object_id) == (unskew(object_id) - t.base) \div WordSize

\* ObjectTable::write_element
write_element(t, object_id, value) ==
  [t EXCEPT !.elems[get_element(t, object_id)] = value]

\* ObjectTable::read_element
read_element(t, object_id) == t.elems[get_element(t, object_id)]

\* ObjectTable::push_free_id
push_free_id(t, object_id) == [write_element(t, object_id, t.free) EXCEPT !.free = object_id]

\* An add_free_range that pushes the first slot of the range only.
add_free_range_first_only(t, lo, hi) ==
  IF hi <= lo THEN t ELSE push_free_id(t, index_to_object_id(t, lo))

\* ObjectTable::add_free_range(lo..hi): pushed from the highest index down
RECURSIVE add_free_range(_, _, _)
add_free_range(t, lo, hi) ==
  IF hi <= lo THEN t
  ELSE add_free_range(push_free_id(t, index_to_object_id(t, hi - 1)), lo, hi - 1)

\* A move_object that leaves the table as it is.
move_object_dropped(t, object_id, new_address) == t

\* ObjectTable::move_object
move_object(t, object_id, new_address) == write_element(t, object_id, new_address)

\* ObjectTable::free_object_id
free_object_id(t, object_id) == push_free_id(t, object_id)

\* ObjectTable::get_object_address
get_object_address(t, object_id) == read_element(t, object_id)

\* Memory::alloc_words: the block starts at the old heap pointer
table_alloc_words(t, size) == [t EXCEPT !.hp = @ + size * WordSize]

\* A copy that writes nothing.
memcpy_words_skipped(t, new_address, old_address) == t

\* memcpy_words
memcpy_words(t, new_address, old_address) ==
  [t EXCEPT !.blocks[new_address] = t.blocks[old_address]]

\* A move to the young generation that is not remembered.
move_to_young_generation_dropped(t, object_id) == t

\* move_to_young_generation: the id enters the young remembered set
move_to_young_generation(t, object_id) == [t EXCEPT !.remembered = @ \cup {object_id}]

\* grow_table, the object after the table: copied to a fresh block at the
\* heap pointer, its slot updated
relocate(t, old_address) ==
  IF old_address < t.last_hp
  THEN move_to_young_generation(
         move_object(memcpy_words(table_alloc_words(t, t.blocks[old_address].size),
                                  t.hp, old_address),
                     t.blocks[old_address].id, t.hp),
         t.blocks[old_address].id)
  ELSE move_object(memcpy_words(table_alloc_words(t, t.blocks[old_address].size),
                                t.hp, old_address),
                   t.blocks[old_address].id, t.hp)

\* grow_table, the extension: the words of the block become table entries
extend(t, block, size) ==
  add_free_range([t EXCEPT !.length = @ + size, !.blocks[block] = NoBlock],
                 t.length, t.length + size)

\* Memory::set_heap_base(self.end())
set_heap_base(t) == [t EXCEPT !.heap_base = end(t)]

\* ObjectTable::grow_table
grow_table(t) ==
  set_heap_base(
    extend(IF has_object_header(t.blocks[end(t)].tag) THEN relocate(t, end(t)) ELSE t,
           end(t), t.blocks[end(t)].size))

\* pop_free_id: the table is grown when the free stack is empty ...
grown(t) == IF t.free = FREE_STACK_END THEN grow_table(t) ELSE t

\* A pop that leaves the top of the free stack where it is.
pop_top_kept(t) == t

\* ... and the top of the free stack is taken
pop_top(t) == [t EXCEPT !.free = read_element(t, t.free)]

pop_free_id(t) == pop_top(grown(t))

\* new_object_id that takes the id and leaves its slot as it was.
new_object_id_unwritten(t, address) == pop_free_id(t)

\* ObjectTable::new_object_id: the table afterwards, and the id returned
new_object_id(t, address) == write_element(pop_free_id(t), grown(t).free, address)

\* ObjectTable::new, with the memory and the history of the calls: the ids in
\* use (live), the address given when each was allocated, the ids that
\* move_object was called on since (moved) and those a growth moved (relocated)
NewTable(length) ==
  add_free_range(
    [base |-> TableBase, length |-> length, free |-> FREE_STACK_END, elems |-> [i \in Indices |-> 0],
     heap_base |-> TableBase + length * WordSize,
     hp |-> TableBase + length * WordSize,
     last_hp |-> TableBase + length * WordSize,
     blocks |-> [a \in Cells |-> NoBlock], remembered |-> {},
     live |-> {}, given |-> [i \in Indices |-> 0], moved |-> {}, relocated |-> {},
     last |-> NoTableOp],
    0, length)

\* The free stack from its top, as far as `fuel` entries.
RECURSIVE FreeStackFrom(_, _, _)
FreeStackFrom(t, object_id, fuel) ==
  IF object_id = FREE_STACK_END \/ fuel = 0 THEN <<>>
  ELSE <<object_id>> \o FreeStackFrom(t, read_element(t, object_id), fuel - 1)

FreeStack(t) == FreeStackFrom(t, t.free, MaxWords + 1)

\* What a call of new_object_id found and what grow_table left, when it grew the table.
Growth(t, g) ==
  IF t.free # FREE_STACK_END THEN NoGrowth
  ELSE [grown |-> TRUE, block |-> t.blocks[end(t)], length |-> g.length,
        free_stack |-> FreeStack(g), heap_base |-> g.heap_base,
        remembered |-> g.remembered, elems |-> g.elems, blocks |-> g.blocks]

\* The header of a block whose object was discarded or moved away.
FreeTag(size) == IF size = 1 THEN "filler" ELSE "free"

\* The allocator: a block for the object, an id for it, then its header.
AllocObject ==
  /\ \E size \in 1..MaxBlockWords :
       /\ grown(table_alloc_words(table, size)).hp <= MemEnd
       /\ \E id \in {grown(table_alloc_words(table, size)).free} :
            table' =
              [new_object_id(table_alloc_words(table, size), table.hp) EXCEPT
                 !.blocks[table.hp] = [tag |-> "object", size |-> size, id |-> id,
                                       data |-> table.hp],
                 !.live = @ \cup {id},
                 !.given[get_element(table, id)] = table.hp,
                 !.moved = @ \ {id},
                 !.relocated =
                    (@ \ {id}) \cup
                    (IF table.free = FREE_STACK_END /\
                        has_object_header(table.blocks[end(table)].tag)
                     THEN {table.blocks[end(table)].id} ELSE {}),
                 !.last = [op |-> "new_object_id", id |-> id, address |-> table.hp,
                           growth |-> Growth(table_alloc_words(table, size),
                                             grown(table_alloc_words(table, size)))]]
  /\ UNCHANGED <<collector_vars, slicing, later_vars>>

\* The collector discards an object: its id is freed, its block is free space.
FreeObject ==
  /\ \E id \in table.live :
       table' =
         [free_object_id(table, id) EXCEPT
            !.blocks[get_object_address(table, id)].tag =
               FreeTag(table.blocks[get_object_address(table, id)].size),
            !.live = @ \ {id},
            !.last = [op |-> "free_object_id", id |-> id,
                      address |-> get_object_address(table, id), growth |-> NoGrowth]]
  /\ UNCHANGED <<collector_vars, slicing, later_vars>>

\* The collector moves an object to a fresh block at the heap pointer.
MoveObject ==
  /\ \E id \in table.live :
       /\ table.hp + table.blocks[get_object_address(table, id)].size * WordSize <= MemEnd
       /\ table' =
            [move_object(memcpy_words(
                           table_alloc_words(table,
                                       table.blocks[get_object_address(table, id)].size),
                           table.hp, get_object_address(table, id)),
                         id, table.hp) EXCEPT
               !.blocks[get_object_address(table, id)].tag =
                  FreeTag(table.blocks[get_object_address(table, id)].size),
               !.moved = @ \cup {id},
               !.last = [op |-> "move_object", id |-> id, address |-> table.hp,
                         growth |-> NoGrowth]]
  /\ UNCHANGED <<collector_vars, slicing, later_vars>>

\* A read of the table.
ReadAddress ==
  /\ \E id \in table.live :
       table' = [table EXCEPT
                   !.last = [op |-> "get_object_address", id |-> id,
                             address |-> get_object_address(table, id),
                             growth |-> NoGrowth]]
  /\ UNCHANGED <<collector_vars, slicing, later_vars>>

\* A young collection has ended: Memory::set_last_heap_pointer(heap pointer).
SetLastHeapPointer ==
  /\ table.last_hp # table.hp
  /\ table' = [table EXCEPT !.last_hp = table.hp,
                            !.last = [NoTableOp EXCEPT !.op = "set_last_heap_pointer"]]
  /\ UNCHANGED <<collector_vars, slicing, later_vars>>

InitTable ==
  /\ InitCollector
  /\ slicing = NoSlicing
  /\ table \in { NewTable(length) : length \in 1..2 }
  /\ LaterIdle

NextTable ==
  \/ AllocObject
  \/ FreeObject
  \/ MoveObject
  \/ ReadAddress
  \/ SetLastHeapPointer

SpecTable == InitTable /\ [][NextTable]_vars

\* ------------------------------------------------------------ roots
\* visit_roots over a static-root array of mutable boxes, the continuation table
\* and an optional remembered set. Values are words: a pointer is the skewed
\* (odd) address of an object, anything even is a scalar.
MaxStaticRoots == 2
MaxTableLen == 2
MaxInserts == 4
InitialTableLength == 2

\* heap_base of the call: the objects at 2 are static, those from 4 on dynamic
RootsHeapBase == 4

is_ptr(v) == v % 2 = 1
get_ptr(v) == unskew(v)

StaticPointer == skew(2)
DynamicPointers == { skew(4), skew(6), skew(8), skew(10) }
RootValues == {0, StaticPointer, skew(4), skew(6)}
TableArray == skew(12)

SeqsUpTo(S, n) == UNION { [1..k -> S] : k \in 0..n }

\* RememberedSet::new
NewRememberedSet ==
  [present |-> TRUE, buckets |-> [b \in 1..InitialTableLength |-> <<>>], count |-> 0]

NoRememberedSet == [present |-> FALSE, buckets |-> <<>>, count |-> 0]

hash(length, v) == ((get_ptr(v) \div WordSize) % length) + 1

contains(rs, v) ==
  \E i \in 1..Len(rs.buckets[hash(Len(rs.buckets), v)]) :
    rs.buckets[hash(Len(rs.buckets), v)][i] = v

\* The entries in the order of the iteration: bucket by bucket, each chain from
\* its head.
RECURSIVE entries_from(_, _)
entries_from(buckets, b) ==
  IF b > Len(buckets) THEN <<>> ELSE buckets[b] \o entries_from(buckets, b + 1)

entries(rs) == entries_from(rs.buckets, 1)

RECURSIVE rehash(_, _, _)
rehash(buckets, seq, i) ==
  IF i > Len(seq) THEN buckets
  ELSE rehash([buckets EXCEPT ![hash(Len(buckets), seq[i])] = Append(@, seq[i])], seq, i + 1)

\* RememberedSet: the table doubles and is rehashed when it holds more entries
\* than buckets
grow_if_full(rs) ==
  IF rs.count <= Len(rs.buckets) THEN rs
  ELSE [rs EXCEPT !.buckets = rehash([b \in 1..(2 * Len(rs.buckets)) |-> <<>>],
                                     entries(rs), 1)]

\* An insertion that does not look for the value in its chain.
insert_always(rs, v) ==
  grow_if_full([rs EXCEPT !.buckets[hash(Len(rs.buckets), v)] = Append(@, v),
                          !.count = @ + 1])

\* RememberedSet::insert
insert(rs, v) == IF contains(rs, v) THEN rs ELSE insert_always(rs, v)

\* A call of the visitor closure.
yield(r, source, value) ==
  [r EXCEPT !.yielded = Append(@, [from |-> source, value |-> value])]

\* A static root that is yielded whatever its field holds.
visit_static_root_unchecked(r, index) == yield(r, "static", r.static_roots[index])

\* visit_static_roots, one mutable box: mark_static_roots' test of the field
visit_static_root(r, index) ==
  IF is_ptr(r.static_roots[index]) /\ get_ptr(r.static_roots[index]) >= r.heap_base
  THEN yield(r, "static", r.static_roots[index])
  ELSE r

RECURSIVE visit_static_roots(_, _)
visit_static_roots(r, index) ==
  IF index > Len(r.static_roots) THEN r
  ELSE visit_static_roots(visit_static_root(r, index), index + 1)

RECURSIVE yield_all(_, _, _, _)
yield_all(r, source, seq, i) ==
  IF i > Len(seq) THEN r ELSE yield_all(yield(r, source, seq[i]), source, seq, i + 1)

\* The continuation table handed to the visitor element by element.
visit_continuation_table_elements(r) ==
  IF r.continuation_table_location = "set" /\ is_ptr(r.continuation_table)
  THEN yield_all(r, "continuation", r.table_elems, 1)
  ELSE r

\* visit_continuation_table: the table is one root, as mark_continuation_table
\* marks it and as the visitors of the tests receive it
visit_continuation_table(r) ==
  IF r.continuation_table_location = "set" /\ is_ptr(r.continuation_table)
  THEN yield(r, "continuation", r.continuation_table)
  ELSE r

\* visit_remembered_set
visit_remembered_set(r) ==
  IF r.remembered_set.present
  THEN yield_all(r, "remembered", entries(r.remembered_set), 1)
  ELSE r

\* visit_roots
visit_roots(r) ==
  visit_remembered_set(visit_continuation_table(visit_static_roots(r, 1)))

NewVisiting(static_roots, location, continuation_table, table_elems, remembered_set) ==
  [static_roots |-> static_roots, heap_base |-> RootsHeapBase,
   continuation_table_location |-> location,
   continuation_table |-> continuation_table, table_elems |-> table_elems,
   remembered_set |-> remembered_set,
   inserted |-> <<>>, yielded |-> <<>>, op |-> "none"]

\* remembered_set.insert(mem, value)
InsertRemembered ==
  /\ visiting.remembered_set.present
  /\ Len(visiting.inserted) < MaxInserts
  /\ \E v \in DynamicPointers :
       visiting' = [visiting EXCEPT !.remembered_set = insert(@, v),
                                    !.inserted = Append(@, v),
                                    !.op = "insert"]
  /\ UNCHANGED <<collector_vars, slicing, table, region, stream>>

\* visit_roots(roots, heap_base, remembered_set, context, visitor)
VisitRoots ==
  /\ visiting.op # "visit_roots"
  /\ visiting' = [visit_roots([visiting EXCEPT !.yielded = <<>>]) EXCEPT !.op = "visit_roots"]
  /\ UNCHANGED <<collector_vars, slicing, table, region, stream>>

\* The roots of a call: the continuation table location is null, or holds a
\* scalar, or holds the pointer to the table array.
InitRoots ==
  /\ InitCollector
  /\ slicing = NoSlicing
  /\ table = NoTable
  /\ region = NoRegion
  /\ stream = NoStream
  /\ \E static_roots \in SeqsUpTo(RootValues, MaxStaticRoots),
        c \in {<<"null", 0>>, <<"set", 0>>, <<"set", TableArray>>},
        table_elems \in SeqsUpTo({skew(4), skew(6)}, MaxTableLen),
        rs \in {NoRememberedSet, NewRememberedSet} :
       /\ (c[2] # TableArray => table_elems = <<>>)
       /\ visiting = NewVisiting(static_roots, c[1], c[2], table_elems, rs)

NextRoots ==
  \/ InsertRemembered
  \/ VisitRoots

SpecRoots == InitRoots /\ [][NextRoots]_vars

\* ------------------------------------------------------------ stream
\* One stream object in the allocation partition, the barrier calls of its
\* allocation and of its split, and the marked-space counter of its partition,
\* over one collection cycle. Sizes are in bytes, blocks in words of 4 bytes.
MaxCache == 4
MaxRequest == 3
MaxStreamOps == 4
StreamChunkSize == 2

InitialStreamFilled == 36

\* size_of::<Blob>(): tag, forward and len
BlobHeaderWords == 3

\* u32 arithmetic of a release build, the width scaled to 16 bits
WrapU32(n) == n % (2^16)
MaxU32 == 2^16 - 1

\* MAX_STREAM_SIZE = (1 << 30) - 1: a quarter of the u32 range
MaxStreamSize == 2^14 - 1

to_words(bytes) == (bytes + 3) \div 4
to_bytes(words) == 4 * words

\* block_size of a blob
blob_block_size(len) == BlobHeaderWords + to_words(len)

NoPlan == [taken |-> FALSE, counter |-> 0, sum |-> 0, excess |-> 0]

NewStream ==
  [phase |-> "Pause", cycle_done |-> FALSE, state |-> "none", size |-> 0,
   len |-> 0, filled |-> 0, limit64 |-> 0, outputter |-> "no_backing_store",
   blob_len |-> 0, slack |-> 0,
   marked |-> [front |-> FALSE, blob |-> FALSE],
   marked_space |-> 0, planned |-> NoPlan, excess |-> 0,
   trap |-> "none", undefined |-> FALSE, over_reserved |-> FALSE,
   wrapped |-> FALSE,
   ops |-> 0, sent |-> 0, op |-> "none"]

\* block_size of the stream (the front blob once it is split) or of the blob
\* split off it
stream_block_size(t, object) ==
  IF object = "front" THEN blob_block_size(t.len) ELSE blob_block_size(t.blob_len)

\* PartitionedHeap::record_marked_space
record_marked_space(t, object) ==
  [t EXCEPT !.marked_space = @ + stream_block_size(t, object)]

\* A barrier that sets the mark bit and leaves the counter of the partition alone.
stream_mark_new_allocation_uncounted(t, object) ==
  IF t.marked[object] THEN [t EXCEPT !.trap = "mark_new_allocation"]
  ELSE [t EXCEPT !.marked[object] = TRUE]

\* mark_new_allocation
stream_mark_new_allocation(t, object) ==
  IF t.marked[object] THEN [t EXCEPT !.trap = "mark_new_allocation"]
  ELSE record_marked_space([t EXCEPT !.marked[object] = TRUE], object)

\* post_allocation_barrier (a blob has no pointer fields for update_new_allocation)
stream_post_allocation_barrier(t, object) ==
  IF t.phase \in {"Mark", "Evacuate"} THEN stream_mark_new_allocation(t, object) ELSE t

\* MarkIncrement::mark_object
stream_mark_object(t, object) ==
  IF t.marked[object] THEN t
  ELSE record_marked_space([t EXCEPT !.marked[object] = TRUE], object)

\* alloc_stream
alloc_stream(t, size) ==
  IF size > MaxStreamSize THEN [t EXCEPT !.trap = "alloc_stream: Cache too large"]
  ELSE stream_post_allocation_barrier(
         [t EXCEPT !.state = "stream", !.size = size,
                   !.len = WrapU32(size + InitialStreamFilled),
                   !.limit64 = 0, !.outputter = "no_backing_store",
                   !.filled = InitialStreamFilled],
         "front")

\* Stream::no_backing_store (assert!(false)) and Stream::send_to_stable
output(t, n) ==
  IF t.trap # "none" THEN t
  ELSE IF t.outputter = "no_backing_store" THEN [t EXCEPT !.trap = "no_backing_store"]
  ELSE [t EXCEPT !.sent = @ + n]

\* Stream::setup_stable_dest
setup_stable_dest(t, limit) ==
  [t EXCEPT !.limit64 = limit, !.outputter = "send_to_stable"]

emptied(t) == IF t.trap # "none" THEN t ELSE [t EXCEPT !.filled = InitialStreamFilled]

\* A flush that hands the cache to the outputter and leaves the fill indicator.
flush_keeping_filled(t) ==
  IF t.filled > InitialStreamFilled THEN output(t, t.filled - InitialStreamFilled) ELSE t

\* Stream::flush
flush(t) ==
  IF t.filled > InitialStreamFilled
  THEN emptied(output(t, t.filled - InitialStreamFilled))
  ELSE t

\* Stream::cache_bytes; the bytes copied reach past the blob if the sum wrapped
cache_bytes(t, n) ==
  IF (t.limit64 # 0 /\ n > StreamChunkSize) \/ WrapU32(t.filled + n) > t.len
  THEN output(flush(t), n)
  ELSE [t EXCEPT !.filled = WrapU32(@ + n),
                 !.undefined = t.filled + n > t.len]

\* as_blob_mut().set(filled, byte); filled += 1
put_byte(t) ==
  IF t.trap # "none" THEN t
  ELSE [t EXCEPT !.undefined = t.filled >= t.len, !.filled = WrapU32(@ + 1)]

\* Stream::cache_byte
cache_byte(t) == put_byte(IF t.filled >= t.len THEN flush(t) ELSE t)

\* filled += bytes; the caller fills the area returned
take_area(t, bytes) ==
  IF t.trap # "none" THEN t
  ELSE [t EXCEPT !.undefined = bytes > 0 /\ t.filled + bytes > t.len,
                 !.filled = WrapU32(@ + bytes)]

\* Stream::reserve
reserve(t, bytes) ==
  take_area(IF WrapU32(t.filled + bytes) > t.len THEN flush(t) ELSE t, bytes)

\* Blob::shrink: the words behind the new length become a filler (history:
\* excess, the words a marked stream was counted with and no longer spans)
shrink(t, new_len) ==
  [t EXCEPT !.slack = to_words(t.len) - to_words(new_len),
            !.excess = IF t.marked.front THEN to_words(t.len) - to_words(new_len) ELSE 0,
            !.len = new_len]

\* A tag that carries the mark bit of the stream's tag over to the new blob.
initialize_tag_marked(t) == [t EXCEPT !.marked.blob = t.marked.front]

\* blob.initialize_tag(TAG_BLOB): a tag with the mark bit clear
initialize_tag(t) == [t EXCEPT !.marked.blob = FALSE]

\* split: the header of the new blob takes the last words of the stream's
\* fields, its len is the stream's `filled`
carve(t) ==
  [t EXCEPT !.state = "split",
            !.excess = IF t.marked.front
                       THEN @ + blob_block_size(t.len)
                              - blob_block_size(InitialStreamFilled - to_bytes(BlobHeaderWords))
                       ELSE 0,
            !.len = InitialStreamFilled - to_bytes(BlobHeaderWords),
            !.filled = t.filled - InitialStreamFilled,
            !.blob_len = t.filled - InitialStreamFilled]

\* Stream::split
split(t) ==
  stream_post_allocation_barrier(
    initialize_tag(carve(IF t.len > t.filled THEN shrink(t, t.filled) ELSE t)),
    "blob")

\* The blocks of the stream that carry a mark bit.
MarkedBlocks(t) ==
  { o \in {"front", "blob"} :
      /\ t.marked[o]
      /\ o = "blob" => t.state = "split" }

SumOfMarked(t) ==
  (IF "front" \in MarkedBlocks(t) THEN stream_block_size(t, "front") ELSE 0)
    + (IF "blob" \in MarkedBlocks(t) THEN stream_block_size(t, "blob") ELSE 0)

\* start_evacuating: plan_evacuations reads the counters (history: what the
\* counter of the partition and its marked blocks were then)
stream_start_evacuating(t) ==
  [t EXCEPT !.phase = "Evacuate",
            !.planned = [taken |-> TRUE, counter |-> t.marked_space,
                         sum |-> SumOfMarked(t), excess |-> t.excess]]

\* complete_run, after an update phase that has cleared every mark bit; the
\* model follows one cycle
stream_complete_run(t) ==
  [t EXCEPT !.phase = "Pause", !.cycle_done = TRUE,
            !.marked = [front |-> FALSE, blob |-> FALSE]]

StreamRuns == stream.trap = "none" /\ ~stream.undefined

StreamOpen == StreamRuns /\ stream.state = "stream" /\ stream.ops < MaxStreamOps

Did(t, name) == [t EXCEPT !.ops = @ + 1, !.op = name]

Others == <<collector_vars, slicing, table, visiting, region>>

AllocStream ==
  /\ StreamRuns
  /\ stream.state = "none"
  /\ \E size \in (0..MaxCache) \cup {MaxStreamSize + 1} :
       stream' = Did(alloc_stream(stream, size), "alloc_stream")
  /\ UNCHANGED Others

SetupStableDest ==
  /\ StreamOpen
  /\ stream.outputter = "no_backing_store"
  /\ \E limit \in {0, 1} :
       stream' = Did(setup_stable_dest(stream, limit), "setup_stable_dest")
  /\ UNCHANGED Others

CacheBytes ==
  /\ StreamOpen
  /\ \E n \in (0..MaxRequest) \cup {MaxU32} :
       stream' = Did([cache_bytes(stream, n) EXCEPT
                        !.wrapped = @ \/ stream.filled + n > MaxU32],
                     "cache_bytes")
  /\ UNCHANGED Others

CacheByte ==
  /\ StreamOpen
  /\ stream' = Did(cache_byte(stream), "cache_byte")
  /\ UNCHANGED Others

Reserve ==
  /\ StreamOpen
  /\ \E bytes \in 0..MaxRequest :
       stream' = Did([reserve(stream, bytes) EXCEPT
                        !.over_reserved = @ \/ bytes > stream.size],
                     "reserve")
  /\ UNCHANGED Others

Shutdown ==
  /\ StreamOpen
  /\ stream' = Did(flush(stream), "shutdown")
  /\ UNCHANGED Others

Split ==
  /\ StreamRuns
  /\ stream.state = "stream"
  /\ stream' = Did(split(stream), "split")
  /\ UNCHANGED Others

\* The mark increment or the pre-write barrier reaches the stream or its blob.
StreamMarkObject ==
  /\ StreamRuns
  /\ stream.phase = "Mark"
  /\ \E o \in {"front", "blob"} :
       /\ o = "blob" => stream.state = "split"
       /\ o = "front" => stream.state # "none"
       /\ ~stream.marked[o]
       /\ stream' = [stream_mark_object(stream, o) EXCEPT !.op = "mark_object"]
  /\ UNCHANGED Others

StreamStartMarking ==
  /\ StreamRuns
  /\ stream.phase = "Pause"
  /\ ~stream.cycle_done
  /\ stream' = [stream EXCEPT !.phase = "Mark", !.op = "start_marking"]
  /\ UNCHANGED Others

StreamStartEvacuating ==
  /\ StreamRuns
  /\ stream.phase = "Mark"
  /\ stream' = [stream_start_evacuating(stream) EXCEPT !.op = "start_evacuating"]
  /\ UNCHANGED Others

StreamStartUpdating ==
  /\ StreamRuns
  /\ stream.phase = "Evacuate"
  /\ stream' = [stream EXCEPT !.phase = "Update", !.op = "start_updating"]
  /\ UNCHANGED Others

StreamCompleteRun ==
  /\ StreamRuns
  /\ stream.phase = "Update"
  /\ stream' = [stream_complete_run(stream) EXCEPT !.op = "complete_run"]
  /\ UNCHANGED Others

StreamStopGc ==
  /\ StreamRuns
  /\ stream.phase # "Stop"
  /\ stream' = [stream EXCEPT !.phase = "Stop", !.op = "stop_gc_on_upgrade"]
  /\ UNCHANGED Others

InitStream ==
  /\ InitCollector
  /\ slicing = NoSlicing
  /\ table = NoTable
  /\ visiting = NoVisiting
  /\ region = NoRegion
  /\ stream = NewStream

NextStream ==
  \/ AllocStream
  \/ SetupStableDest
  \/ CacheBytes
  \/ CacheByte
  \/ Reserve
  \/ Shutdown
  \/ Split
  \/ StreamMarkObject
  \/ StreamStartMarking
  \/ StreamStartEvacuating
  \/ StreamStartUpdating
  \/ StreamCompleteRun
  \/ StreamStopGc

SpecStream == InitStream /\ [][NextStream]_vars

\* ------------------------------------------------------------ region
\* One region object and its vec_pages blob. A byte of a blob that was never
\* written, or that is read from behind the end of a blob, has any value.
MaxRegionGrows == 3

Byte == {0, 1}

\* the page counts asked for: none, one, two, a whole block, and one that
\* does not fit the u32 it is cast to
GrowRequests == {0, 1, 2, 128, MaxU32 + 1}

\* the longest vec_pages blob the requests can lead to
MaxVecBytes == 2 * MaxRegionGrows

NoGrow ==
  [op |-> "none", new_pages |-> 0, returned |-> 0, old_page_count |-> 0,
   old_vec_pages |-> <<>>, copied |-> 0]

\* region_new
region_new ==
  [state |-> "region", page_count |-> 0, vec_pages |-> <<>>, grows |-> 0,
   undefined |-> FALSE, last |-> [NoGrow EXCEPT !.op = "region_new"]]

\* let new_block_count = (old_page_count + new_pages_ + 127) / 128
new_block_count(old_page_count, new_pages_) ==
  WrapU32(old_page_count + new_pages_ + 127) \div 128

\* let old_vec_byte_count = (old_page_count + 127 / 128) * 2
old_vec_byte_count(old_page_count) ==
  WrapU32(WrapU32(old_page_count + (127 \div 128)) * 2)

\* alloc_blob(mem, Bytes(len)): the payload is whatever the memory held
region_alloc_blob(len, memory) == [i \in 1..len |-> memory[i]]

\* for i in 0..old_vec_byte_count { new_pages.set(i, old_pages.get(i)) }
\* (index i of the code is position i + 1 here)
copy_loop(new_blob, old_blob, count, memory) ==
  [i \in 1..Len(new_blob) |->
     IF i > count THEN new_blob[i]
     ELSE IF i <= Len(old_blob) THEN old_blob[i]
     ELSE memory[i]]

\* region_grow; new_pages_ = new_pages as u32. A write behind the end of the
\* new blob leaves the heap in an undefined state.
region_grow(r, new_pages, memory) ==
  [r EXCEPT
     !.page_count = WrapU32(@ + WrapU32(new_pages)),
     !.vec_pages =
        copy_loop(region_alloc_blob(
                    WrapU32(new_block_count(r.page_count, WrapU32(new_pages)) * 2),
                    memory),
                  r.vec_pages,
                  old_vec_byte_count(r.page_count),
                  memory),
     !.undefined =
        old_vec_byte_count(r.page_count)
          > WrapU32(new_block_count(r.page_count, WrapU32(new_pages)) * 2),
     !.grows = @ + 1,
     !.last = [op |-> "region_grow", new_pages |-> new_pages,
               returned |-> r.page_count, old_page_count |-> r.page_count,
               old_vec_pages |-> r.vec_pages,
               copied |-> old_vec_byte_count(r.page_count)]]

\* region_size
region_size(r) == r.page_count

RegionOthers == <<collector_vars, slicing, table, visiting, stream>>

RegionNew ==
  /\ region = NoRegion
  /\ region' = region_new
  /\ UNCHANGED RegionOthers

RegionGrow ==
  /\ region # NoRegion
  /\ ~region.undefined
  /\ region.grows < MaxRegionGrows
  /\ \E new_pages \in GrowRequests, memory \in [1..MaxVecBytes -> Byte] :
       region' = region_grow(region, new_pages, memory)
  /\ UNCHANGED RegionOthers

RegionSize ==
  /\ region # NoRegion
  /\ ~region.undefined
  /\ region.last.op # "region_size"
  /\ region' = [region EXCEPT !.last = [NoGrow EXCEPT !.op = "region_size",
                                                      !.returned = region_size(region)]]
  /\ UNCHANGED RegionOthers

InitRegion ==
  /\ InitCollector
  /\ slicing = NoSlicing
  /\ table = NoTable
  /\ visiting = NoVisiting
  /\ stream = NoStream
  /\ region = NoRegion

NextRegion ==
  \/ RegionNew
  \/ RegionGrow
  \/ RegionSize

SpecRegion == InitRegion /\ [][NextRegion]_vars

\* ------------------------------------------------------------ properties
Allocated == { a \in Addr : IsAllocated(heap, parts, a) }

Range(seq) == { seq[i] : i \in 1..Len(seq) }

\* C1: snapshot-at-the-beginning: every object that was reachable from the roots
\* when start_marking ran is marked at the moment `complete` becomes true (no
\* snapshot object was found unmarked by complete_marking, and while the phase
\* is Mark with `complete` set every snapshot object carries its mark bit).
C1_SnapshotMarkedAtCompletion ==
  /\ satb_missed = {}
  /\ (phase = "Mark" /\ complete) => \A a \in snapshot : heap[a].marked

\* Marking completed although the mutator has cut a snapshot object off the roots.
C1_Witness ==
  /\ phase = "Mark" /\ complete
  /\ \E a \in snapshot : a \notin Reachable(heap, roots) /\ heap[a].marked

\* C2: every object reachable from the roots when Mark started is still stored in
\* a partition that has not been freed (at its own or at its forwarded address),
\* in every phase and in particular when the cycle has ended with Update -> Pause.
C2_SnapshotSurvivesCycle ==
  \A a \in snapshot : a \in Allocated /\ heap[a].forward = a

\* A cycle has just ended and an object whose last reference was overwritten
\* after Mark started is still stored.
C2_Witness ==
  /\ phase = "Pause"
  /\ last.op = "incremental_gc" /\ last.path # <<>>
  /\ \E a \in snapshot : a \notin Reachable(heap, roots) /\ a \in Allocated

\* C3: when the cycle has completed (phase back to Pause) no pointer held in a
\* root or in a field of a reachable object addresses a block of a freed
\* partition or an evacuated original.
C3_NoPointerIntoFreedPartition ==
  phase = "Pause" =>
    /\ \A v \in HeapPointers({ roots[i] : i \in RootIdx }) :
         v \in Allocated /\ heap[v].forward = v
    /\ \A a \in Reachable(heap, roots) :
         /\ a \in Allocated
         /\ points_to_or_beyond(heap[a].field) =>
              heap[a].field \in Allocated /\ heap[heap[a].field].forward = heap[a].field

\* A cycle that freed a partition has just ended and a reachable object lives on
\* as an evacuated copy.
C3_Witness ==
  /\ phase = "Pause"
  /\ last.op = "incremental_gc" /\ last.path # <<>>
  /\ \E p \in Partitions : parts[p].free = 0 /\ p < alloc_part
  /\ \E a \in Reachable(heap, roots) : PartOf(a) = alloc_part /\ OffsetOf(a) > 0

AllowedTransitions ==
  { <<"Pause", "Mark">>, <<"Mark", "Evacuate">>, <<"Evacuate", "Update">>,
    <<"Update", "Pause">> } \cup
  { <<p, "Stop">> : p \in {"Pause", "Mark", "Evacuate", "Update", "Stop"} }

PathAllowed(seq) ==
  \A i \in 1..(Len(seq) - 1) : <<seq[i], seq[i + 1]>> \in AllowedTransitions

\* C4: every assignment to the phase made by any operation follows
\* Pause -> Mark -> Evacuate -> Update -> Pause, or leads to Stop.
C4_PhaseOrder ==
  [][ /\ PathAllowed(<<phase>> \o last'.path)
      /\ phase' = (<<phase>> \o last'.path)[1 + Len(last'.path)] ]_vars

\* A second cycle over a heap with live objects, spread over several calls, has
\* just walked from Evacuate through Update back to Pause.
C4_Witness ==
  /\ phase = "Pause"
  /\ cycles = 2
  /\ last.path = <<"Evacuate", "Update", "Pause">>
  /\ Reachable(heap, roots) # {}

\* C5: only empty_call_stack_increment drives the phase: write_with_barrier and
\* allocation_barrier (with its allocation increment) never assign the phase and
\* never free a partition; apart from it only stop_gc_on_upgrade assigns the phase.
C5_OnlyEmptyCallStackIncrementDrives ==
  [][ last'.op # "incremental_gc" =>
        /\ last'.path = IF last'.op = "stop_gc_on_upgrade" THEN <<"Stop">> ELSE <<>>
        /\ last'.op # "stop_gc_on_upgrade" => phase' = phase
        /\ \A p \in Partitions : parts'[p].free >= parts[p].free ]_vars

\* An allocation increment has finished the marking, and the phase is still Mark.
C5_Witness ==
  /\ phase = "Mark" /\ complete
  /\ last.op = "allocation_barrier"

\* C6: Stop is terminal: once the phase is Stop every operation leaves it Stop,
\* sets or clears no mark bit, changes no marked-space counter, installs no
\* forwarding pointer and frees no partition.
C6_StopIsTerminal ==
  [][ phase = "Stop" =>
        /\ phase' = "Stop"
        /\ \A a \in Addr : heap'[a].marked = heap[a].marked
        /\ \A a \in Allocated : heap'[a].forward = heap[a].forward
        /\ \A p \in Partitions :
             /\ parts'[p].free >= parts[p].free
             /\ parts'[p].marked_space = parts[p].marked_space
             /\ parts'[p].evacuate = parts[p].evacuate ]_vars

\* The collector was stopped in the middle of a cycle and has been called since.
C6_Witness ==
  /\ phase = "Stop"
  /\ last.op = "incremental_gc"
  /\ \E a \in Allocated : heap[a].marked

NewlyMarked == { a \in Addr : heap'[a].marked /\ ~heap[a].marked }

\* C7: a write_with_barrier call marks nothing but the value stored at the
\* location right before the store, and only in phase Mark with `complete` unset
\* and that value a heap pointer; in every other phase it changes no mark bit
\* and not the mark stack; it never clears a mark bit.
C7_PreWriteBarrierMarksOnlyOverwritten ==
  [][ last'.op = "write_with_barrier" =>
        /\ last'.old = ReadLoc(St(0, "write_with_barrier"), last'.loc)
        /\ NewlyMarked \subseteq {last'.old}
        /\ NewlyMarked # {} =>
             phase = "Mark" /\ ~complete /\ points_to_or_beyond(last'.old)
        /\ phase # "Mark" => mark_stack' = mark_stack
        /\ \A a \in Addr : heap[a].marked => heap'[a].marked ]_vars

\* The barrier has just marked the pointer it overwrote.
C7_Witness ==
  /\ last.op = "write_with_barrier"
  /\ phase = "Mark" /\ ~complete
  /\ points_to_or_beyond(last.old)
  /\ ~last.remark
  /\ mark_stack # <<>> /\ Top(mark_stack) = last.old

\* C8: the assertion of pre_write_barrier never fails: with marking complete,
\* every heap pointer the mutator overwrites refers to a marked object.
C8_OverwrittenMarkedWhenComplete == trap # "pre_write_barrier"

\* With marking complete the mutator has overwritten a heap pointer.
C8_Witness ==
  /\ phase = "Mark" /\ complete
  /\ last.op = "write_with_barrier"
  /\ points_to_or_beyond(last.old)
  /\ trap = "none"

SameMarking(s, t) ==
  s.heap = t.heap /\ s.parts = t.parts /\ s.mark_stack = t.mark_stack

\* C9: mark_object is idempotent: on a marked object it changes neither mark
\* bits, marked-space counters nor the mark stack; a second call changes nothing
\* the first did not; no object is pushed by mark_object twice in a cycle.
C9_MarkObjectIdempotent ==
  /\ \A a \in Addr : pushes[a] <= 1
  /\ (phase = "Mark" /\ ~complete) =>
       \A v \in Allocated :
         /\ mark_object(St(0, "mark_object"), v).heap[v].marked
         /\ SameMarking(mark_object(mark_object(St(0, "mark_object"), v), v),
                        mark_object(St(0, "mark_object"), v))
         /\ heap[v].marked => SameMarking(mark_object(St(0, "mark_object"), v),
                                          St(0, "mark_object"))

\* mark_object has been called on an object that was already marked.
C9_Witness ==
  /\ phase = "Mark"
  /\ last.remark
  /\ \E a \in Addr : pushes[a] = 1

\* C10 as stated: during Mark every marked object whose fields mark_fields has
\* not visited is on the mark stack.
C10_Original ==
  phase = "Mark" =>
    \A a \in Allocated : (heap[a].marked /\ a \notin scanned) => a \in Range(mark_stack)

\* C10: during Mark every object marked by mark_object (from a root, a field or
\* the write barrier) whose fields mark_fields has not visited is on the mark
\* stack; objects marked by the post-allocation barrier are on no stack.
C10_MarkedByMarkObjectOnStack ==
  phase = "Mark" =>
    /\ \A a \in Allocated :
         (heap[a].marked /\ pushes[a] >= 1 /\ a \notin scanned) => a \in Range(mark_stack)
    /\ \A a \in Range(mark_stack) : heap[a].marked /\ pushes[a] >= 1

\* Mark is under way with an object waiting on the stack and another one marked
\* by the post-allocation barrier.
C10_Witness ==
  /\ phase = "Mark"
  /\ mark_stack # <<>>
  /\ \E a \in Allocated : heap[a].marked /\ pushes[a] = 0

\* The calls of the given name the last operation made.
Calls(name) == { i \in 1..Len(last.log) : last.log[i][1] = name }

Count(seq, x) == Cardinality({ i \in 1..Len(seq) : seq[i] = x })

C11_State ==
  /\ (phase = "Mark" /\ complete) => mark_stack = <<>>
  /\ \A i \in Calls("complete_marking") :
        last.log[i][2] /\ last.op \in {"incremental_gc", "allocation_barrier"}
  /\ \A i \in Calls("start_evacuating") : last.log[i][2] /\ last.log[i][3]
  /\ Cardinality(Calls("plan_evacuations")) = Count(last.path, "Evacuate")
  /\ Cardinality(Calls("start_evacuating")) = Count(last.path, "Evacuate")
  /\ Count(last.path, "Evacuate") <= 1

C11_Step ==
  /\ (phase = "Mark" /\ complete /\ phase' = "Mark") => complete'
  /\ (phase' = "Mark" /\ complete' /\ ~(phase = "Mark" /\ complete)) =>
        /\ Calls("complete_marking")' # {}
        /\ mark_stack' = <<>>

\* C11: with phase Mark, `complete` implies an empty mark stack; `complete` is
\* set only by complete_marking, called by a mark increment that found the stack
\* empty, and stays set while the phase is Mark; every Mark -> Evacuate
\* transition is made by start_evacuating with `complete` set and calls
\* plan_evacuations exactly once.
C11_CompleteMeansEmptyStack == [](C11_State) /\ [][C11_Step]_vars

\* An increment has completed the marking of a heap with live objects and the
\* same call has gone on to Evacuate.
C11_Witness ==
  /\ Calls("complete_marking") # {}
  /\ Calls("plan_evacuations") # {}
  /\ \E a \in Allocated : heap[a].marked

\* C12: the forwarding pointer of every object is the object itself or the
\* address of an allocated, self-forwarding copy in a partition that is not
\* flagged for evacuation; the allocation partition is never flagged, so neither
\* evacuation copies nor new objects are placed in a flagged partition.
C12_ForwardOutsideEvacuatedPartitions ==
  /\ \A o \in Allocated :
       \/ heap[o].forward = o
       \/ /\ heap[o].forward \in Allocated
          /\ ~parts[PartOf(heap[o].forward)].evacuate
          /\ heap[heap[o].forward].forward = heap[o].forward
          /\ parts[PartOf(o)].evacuate
  /\ ~parts[alloc_part].evacuate
  /\ (last.op = "allocation_barrier" /\ trap = "none") => ~parts[PartOf(last.loc[2])].evacuate

\* An object has been evacuated, and the mutator has just allocated an object
\* while partitions are flagged.
C12_Witness ==
  /\ \E o \in Allocated : heap[o].forward # o
  /\ last.op = "allocation_barrier"
  /\ \E p \in Partitions : parts[p].evacuate

\* The heap iterator has gone past the object at address a.
Passed(a) ==
  \/ PartOf(a) < iter.pi
  \/ PartOf(a) = iter.pi /\ OffsetOf(a) < iter.cur

ToBeEvacuated == { a \in Allocated : parts[PartOf(a)].evacuate }

Originals(c) == { o \in Allocated : o # c /\ heap[o].forward = c }

\* C13: during Evacuate every marked object of a flagged partition that the
\* heap iterator has passed forwards to a copy of its own (allocated,
\* self-forwarding, marked, the copy of no other object); every object not yet
\* passed and every unmarked object self-forwards; evacuate_object is only
\* applied to marked objects that are not forwarded, at most once per object.
C13_EvacuatedExactlyOnce ==
  /\ (phase = "Evacuate" /\ trap = "none") =>
       \A o \in ToBeEvacuated :
         /\ (Passed(o) /\ heap[o].marked) =>
              /\ heap[o].forward # o
              /\ heap[o].forward \in Allocated \ ToBeEvacuated
              /\ heap[heap[o].forward].forward = heap[o].forward
              /\ heap[heap[o].forward].marked
              /\ Originals(heap[o].forward) = {o}
         /\ (~Passed(o) \/ ~heap[o].marked) => heap[o].forward = o
  /\ \A i \in Calls("evacuate_object") :
       /\ ~last.log[i][3]
       /\ last.log[i][4]
       /\ \A j \in Calls("evacuate_object") : last.log[j][2] = last.log[i][2] => j = i

\* The evacuation is under way between two increments: a marked object has been
\* passed and copied, and an object of a flagged partition is still to come.
C13_Witness ==
  /\ phase = "Evacuate"
  /\ trap = "none"
  /\ \E o \in ToBeEvacuated : Passed(o) /\ heap[o].marked
  /\ \E o \in ToBeEvacuated : ~Passed(o)

\* C14: round trip: at the end of the cycle the field of every evacuated copy the
\* mutator did not store to holds the forward-resolved value of what the field of
\* its original held when it was evacuated; until then it holds that value
\* itself (in Evacuate) or one of the two (in Update).
C14_RoundTrip ==
  /\ \A i \in Calls("complete_run") : \A e \in last.log[i][2] :
       /\ e[1] \in Allocated
       /\ heap[e[1]].field = e[3]
  /\ \A e \in copied :
       /\ phase = "Evacuate" => heap[e[1]].field = e[2]
       /\ phase = "Update" => heap[e[1]].field \in {e[2], forward_if_possible(heap, e[2])}

\* A cycle has ended with an evacuated copy whose pointer field was forwarded:
\* it differs from the field of the original.
C14_Witness ==
  \E i \in Calls("complete_run") : \E e \in last.log[i][2] :
    e[2] # e[3] /\ heap[e[1]].field = e[3]

\* The partitions that lose blocks in the step.
Freed == { p \in Partitions : parts'[p].free < parts[p].free }

C15_State ==
  /\ phase = "Pause" => \A p \in Partitions : ~parts[p].evacuate
  /\ \A i \in Calls("complete_run") : \A p \in last.log[i][3] :
       /\ parts[p] = FreePart
       /\ \A a \in Addr : PartOf(a) = p => heap[a] = FreeBlock
       /\ p # alloc_part
  /\ Cardinality(Calls("complete_run")) = Count(last.path, "Pause")

C15_Step ==
  Freed # {} =>
    /\ last'.op = "incremental_gc"
    /\ phase' = "Pause"
    /\ \E i \in Calls("complete_run")' : Freed = last'.log[i][3]
    /\ \/ phase = "Update"
       \/ \E k \in 1..(Len(last'.path) - 1) :
            last'.path[k] = "Update" /\ last'.path[k + 1] = "Pause"

\* C15: in Pause no partition is flagged for evacuation; complete_run, which
\* makes the Update -> Pause transition, leaves every partition that was
\* flagged with free pointer, marked space and flag reset and its blocks
\* released; partitions lose blocks in no other step.
C15_EvacuatedPartitionsFreed == [](C15_State) /\ [][C15_Step]_vars

\* A cycle has ended and freed a flagged partition.
C15_Witness ==
  \E i \in Calls("complete_run") : last.log[i][3] # {}

\* C16: whenever the phase is Pause no object of the heap has its mark bit set,
\* also not the objects the mutator allocated while the cycle was running.
C16_PauseHasNoMarks ==
  phase = "Pause" => \A a \in Addr : ~heap[a].marked

\* The first cycle has ended, and there is an object outside the snapshot in a
\* partition all of whose blocks were recorded as marked space: it was marked
\* by the allocation barrier during the cycle and is unmarked now.
C16_Witness ==
  /\ phase = "Pause"
  /\ cycles = 1
  /\ Calls("complete_run") # {}
  /\ \E a \in Allocated \ snapshot :
       /\ parts[PartOf(a)].marked_space = parts[PartOf(a)].free
       /\ ~heap[a].marked

\* What post_allocation_barrier makes (t) of the state s with the new object.
PostAllocationEffect(s, t, new) ==
  /\ t.phase = s.phase
  /\ t.mark_stack = s.mark_stack
  /\ t.roots = s.roots
  /\ \A a \in Addr \ {new} : t.heap[a] = s.heap[a]
  /\ \A p \in Partitions \ {PartOf(new)} : t.parts[p] = s.parts[p]
  /\ t.heap[new].forward = new
  /\ t.parts[PartOf(new)].free = s.parts[PartOf(new)].free
  /\ s.phase \in {"Mark", "Evacuate"} =>
       /\ t.heap[new].marked
       /\ t.heap[new].field = s.heap[new].field
       /\ t.parts[PartOf(new)].marked_space = s.parts[PartOf(new)].marked_space + BlockSize
       /\ new \notin Range(t.mark_stack)
       /\ t.pushes = s.pushes
  /\ s.phase = "Update" =>
       /\ ~t.heap[new].marked
       /\ t.heap[new].field = forward_if_possible(s.heap, s.heap[new].field)
       /\ t.parts = s.parts
  /\ s.phase \in {"Pause", "Stop"} =>
       /\ t.heap = s.heap
       /\ t.parts = s.parts

\* C17: the post-allocation barrier, applied to any object the mutator can
\* allocate in a reachable state: in Mark and Evacuate it sets the mark bit and
\* adds the block size to the marked space of the object's partition, and pushes
\* nothing; in Update it forwards the pointer field and does not mark; in Pause
\* and Stop it changes nothing. The object allocation_barrier has just handled
\* shows the same (its field was `last.old` when it was allocated).
C17_PostAllocationBarrierByPhase ==
  /\ (trap = "none" /\ CanAllocate(St(ShortLimit, "allocation_barrier"))) =>
       \A init \in Storable :
         PostAllocationEffect(
           NewObject(St(ShortLimit, "allocation_barrier"),
                     AllocAddress(St(ShortLimit, "allocation_barrier")), init),
           post_allocation_barrier(
             NewObject(St(ShortLimit, "allocation_barrier"),
                       AllocAddress(St(ShortLimit, "allocation_barrier")), init),
             AllocAddress(St(ShortLimit, "allocation_barrier"))),
           AllocAddress(St(ShortLimit, "allocation_barrier")))
  /\ (last.op = "allocation_barrier" /\ trap = "none") =>
       /\ phase \in {"Mark", "Evacuate"} =>
            /\ heap[last.loc[2]].marked
            /\ heap[last.loc[2]].field = last.old
            /\ last.loc[2] \notin Range(mark_stack) \cup scanned
       /\ phase = "Update" =>
            /\ ~heap[last.loc[2]].marked
            /\ heap[last.loc[2]].field = forward_if_possible(heap, last.old)
       /\ phase \in {"Pause", "Stop"} =>
            /\ ~heap[last.loc[2]].marked
            /\ heap[last.loc[2]].field = last.old

\* The mutator has allocated an object in Update whose initial field pointed to
\* an evacuated original: the field now holds the address of the copy.
C17_Witness ==
  /\ last.op = "allocation_barrier"
  /\ phase = "Update"
  /\ heap[last.loc[2]].field # last.old

\* The populated heap is a state of Spec (but for the count of mutations made).
PopulatedReachable ==
  /\ phase = "Pause" /\ cycles = 0 /\ stack = {}
  /\ heap = PopulatedHeap /\ parts = PopulatedParts /\ alloc_part = 1
  /\ roots = [i \in RootIdx |-> IF i = 1 THEN AddrOf(0, 0) ELSE 0]
  /\ last = [NoLast EXCEPT !.op = "mutator"]

\* A write_with_barrier call that returned: the value it was given, and what
\* the location holds after it.
WriteStep == last'.op = "write_with_barrier" /\ trap' = "none"

WrittenValue == last'.log[1][2]

StoredValue ==
  IF last'.loc[1] = "root" THEN roots'[last'.loc[2]] ELSE heap'[last'.loc[2]].field

MarksUnchanged ==
  /\ \A a \in Addr : heap'[a].marked = heap[a].marked
  /\ mark_stack' = mark_stack
  /\ \A p \in Partitions : parts'[p].marked_space = parts[p].marked_space

\* C18 as stated: in Pause and in Stop the location holds exactly the value
\* given, and nothing is marked.
C18_Original ==
  [][ (WriteStep /\ phase \in {"Pause", "Stop"}) =>
        /\ StoredValue = WrittenValue
        /\ MarksUnchanged ]_vars

\* C18: in Pause write_with_barrier is a plain store: the location holds exactly
\* the value given. In Stop it goes through internal_write_with_barrier: the
\* location holds value.forward_if_possible(). In both phases nothing is marked.
C18_PlainStoreOnlyInPause ==
  [][ (WriteStep /\ phase \in {"Pause", "Stop"}) =>
        /\ phase = "Pause" => StoredValue = WrittenValue
        /\ phase = "Stop" => StoredValue = forward_if_possible(heap, WrittenValue)
        /\ MarksUnchanged ]_vars

\* A store made in Stop of a pointer to an evacuated original: the location
\* holds the address of the copy.
C18_Witness ==
  /\ last.op = "write_with_barrier"
  /\ phase = "Stop"
  /\ trap = "none"
  /\ ReadLoc(St(0, "write_with_barrier"), last.loc) # last.log[1][2]

\* C19 as stated: forward_if_possible in Update, exactly the value given in
\* every other phase.
C19_Original ==
  [][ WriteStep =>
        /\ phase = "Update" => StoredValue = forward_if_possible(heap, WrittenValue)
        /\ phase # "Update" => StoredValue = WrittenValue ]_vars

\* C19: write_with_barrier stores value.forward_if_possible() in Update, and
\* so it does in Mark, Evacuate and Stop; only in Pause the stored value is
\* exactly the value given. A store made in Update leaves no pointer to a
\* forwarded original in the location.
C19_StoreResolvesForwarding ==
  [][ WriteStep =>
        /\ phase # "Pause" => StoredValue = forward_if_possible(heap, WrittenValue)
        /\ phase = "Pause" => StoredValue = WrittenValue
        /\ (phase = "Update" /\ points_to_or_beyond(StoredValue)) =>
             heap'[StoredValue].forward = StoredValue ]_vars

\* A store made in Update of a pointer to an evacuated original: the location
\* holds the address of the copy.
C19_Witness ==
  /\ last.op = "write_with_barrier"
  /\ phase = "Update"
  /\ trap = "none"
  /\ ReadLoc(St(0, "write_with_barrier"), last.loc) # last.log[1][2]
  /\ heap[last.log[1][2]].forward = ReadLoc(St(0, "write_with_barrier"), last.loc)

\* An allocation_barrier call that returned.
AllocStep ==
  last'.op = "allocation_barrier" /\ mutations' # mutations /\ trap' = "none"

IncrementsRun == Cardinality(Calls("allocation_increment")')

\* C20 as stated: of the allocation_barrier calls of a cycle, every
\* AllocInterval-th runs one increment and the others none.
C20_Original ==
  [][ AllocStep =>
        /\ running(phase) => IncrementsRun = (IF barrier_calls'.cycle = 0 THEN 1 ELSE 0)
        /\ ~running(phase) => IncrementsRun = 0 ]_vars

\* C20: of the allocation_barrier calls made while the phase is Mark, Evacuate
\* or Update, counted from the start of the program and across cycles, every
\* AllocInterval-th runs exactly one increment, with the SHORT budget, and the
\* others run none; the calls made in Pause and Stop run none and are not counted.
C20_IncrementEveryIntervalAcrossCycles ==
  [][ AllocStep =>
        /\ running(phase) => IncrementsRun = (IF barrier_calls'.total = 0 THEN 1 ELSE 0)
        /\ ~running(phase) => IncrementsRun = 0 /\ alloc_count' = alloc_count
        /\ \A i \in Calls("allocation_increment")' : last'.log[i][2] = ShortLimit
        /\ alloc_count' = barrier_calls'.total
        /\ phase' = phase ]_vars

\* An allocation in the second cycle has run an increment although it is not
\* the AllocInterval-th allocation of that cycle: the count was carried over.
C20_Witness ==
  /\ last.op = "allocation_barrier"
  /\ Calls("allocation_increment") # {}
  /\ barrier_calls.cycle # 0
  /\ barrier_calls.total = 0

C21_Leads ==
  running(phase) ~> (phase = "Pause" \/ phase = "Stop" \/ trap # "none")

\* An incremental_gc call in a running phase changes the collector's state.
C21_Advances ==
  (running(phase) /\ GcCallable) =>
    \E t \in {empty_call_stack_increment(St(LongLimit, "incremental_gc"))} :
      <<t.phase, t.iter, t.mark_stack, t.complete, t.heap, t.parts, t.trap>>
        # <<phase, iter, mark_stack, complete, heap, parts, trap>>

ScheduleCallsGc == running(phase) \/ should_start

\* The start policy over the integers: relative_growth > 0.33 with
\* relative_growth = (occupation - last_occupation) / occupation, no wrap-around.
StartPolicy(occupation, last_occupation) ==
  \/ /\ occupation > 0
     /\ 100 * (occupation - last_occupation) > 33 * occupation
     /\ occupation >= PartitionSize
  \/ occupation > CriticalLimit

\* C22: at a schedule point in Pause a cycle is started exactly when the growth
\* of the occupation since the start of the previous cycle, relative to the
\* occupation, exceeds 0.33 and the occupation is at least a partition, or the
\* occupation exceeds the critical limit; in Mark, Evacuate and Update the
\* schedule point always runs an increment; in Stop an increment changes nothing.
C22_StartPolicy ==
  /\ phase = "Pause" =>
       (ScheduleCallsGc <=> StartPolicy(occupied_size(parts), last_occ))
  /\ running(phase) => ScheduleCallsGc
  /\ (phase = "Stop" /\ trap = "none") =>
       \E t \in {empty_call_stack_increment(St(LongLimit, "incremental_gc"))} :
         <<t.phase, t.iter, t.mark_stack, t.complete, t.heap, t.parts, t.trap>>
           = <<phase, iter, mark_stack, complete, heap, parts, trap>>

\* A turn of the mark loop that popped the array and visited a slice of it.
PopsArray ==
  /\ slicing' # slicing
  /\ slicing'.last.op = "mark_fields"
  /\ slicing'.last.object = "array"

\* The elements the step visited, and the pointers among them (mark_object is
\* called on each, and ticks).
Covered == { i \in 1..slicing.len : slicing'.visits[i] # slicing.visits[i] }

PointersCovered == { i \in Covered : slicing.elems[i] = 1 }

C24_SliceStep ==
  PopsArray =>
    /\ Cardinality(Covered) <= SliceIncrement
    /\ Covered = (slicing'.last.start + 1)..slicing'.last.stop
    /\ slicing'.last.start = slice_start(slicing)
    /\ slicing'.marked["array"]
    /\ Count(slicing'.mark_stack, "array")
         = (IF slicing'.last.stop < slicing.len THEN 1 ELSE 0)
    /\ slicing'.tag = (IF slicing'.last.stop < slicing.len
                       THEN slicing'.last.stop ELSE TagArray)
    /\ slicing'.last.stop < slicing.len => slicing'.tag >= TagArraySliceMin

C24_VisitedOnce ==
  /\ \A i \in 1..slicing.len : slicing.visits[i] <= 1
  /\ slicing.complete =>
       /\ \A i \in 1..slicing.len : slicing.visits[i] = 1
       /\ slicing.tag = TagArray

\* C24: a pop of an array visits at most SLICE_INCREMENT elements, those from
\* the slice start its tag holds; the array is pushed again exactly when
\* elements remain, its tag then the start of the next slice (at least
\* TAG_ARRAY_SLICE_MIN) and its mark kept; the last slice restores TAG_ARRAY;
\* and when marking completes every element has been visited exactly once.
C24_BoundedSlices == [](C24_VisitedOnce) /\ [][C24_SliceStep]_vars

\* An array of more than one slice, the last one short, has been marked to completion.
C24_Witness ==
  /\ slicing.len > SliceIncrement
  /\ slicing.len % SliceIncrement # 0
  /\ slicing.complete
  /\ slicing.last.op = "complete_marking"

\* The object that a growth of the table found after the table and moved away.
Relocated(op) ==
  IF op.growth.grown /\ has_object_header(op.growth.block.tag)
  THEN {op.growth.block.id} ELSE {}

\* new_object_id returns an id whose slot holds the address.
ReturnsIdOfAddress ==
  table'.last.op = "new_object_id" =>
    get_object_address(table', table'.last.id) = table'.last.address

\* The statement as written: no call changes the address of an id other than
\* the one it is made on.
C25_Original ==
  [][/\ ReturnsIdOfAddress
     /\ \A i \in table.live \cap table'.live :
          i # table'.last.id =>
            get_object_address(table', i) = get_object_address(table, i)]_vars

\* C25: new_object_id(address) returns an id whose slot holds the address;
\* free_object_id and move_object on other ids leave that address as it is,
\* and so does a later new_object_id, unless it grows the table and the
\* object is the one right after the table: then its slot holds the fresh
\* address the object was moved to.
C25_AddressStable ==
  [][/\ ReturnsIdOfAddress
     /\ \A i \in table.live \cap table'.live :
          i # table'.last.id =>
            IF i \in Relocated(table'.last)
            THEN /\ get_object_address(table', i) > table.hp
                 /\ get_object_address(table', i)
                      + WordSize * table'.blocks[get_object_address(table', i)].size
                      = table'.hp
            ELSE get_object_address(table', i) = get_object_address(table, i)]_vars

\* new_object_id has grown the table, moved the object after it away and left
\* the address of another live object alone.
C25_Witness ==
  /\ table.last.op = "new_object_id"
  /\ Relocated(table.last) # {}
  /\ table.live \ (Relocated(table.last) \cup {table.last.id}) # {}

\* new_object_id returns an id that is not in use.
ReturnsFreeId ==
  table'.last.op = "new_object_id" /\ table' # table => table'.last.id \notin table.live

\* No two ids in use hold the same address.
DistinctAddresses ==
  \A i, j \in table.live :
    i # j => get_object_address(table, i) # get_object_address(table, j)

\* The statement as written: an id in use that move_object was not called on
\* holds the address given at its allocation.
C26_Original ==
  \A i \in table.live \ table.moved :
    get_object_address(table, i) = table.given[get_element(table, i)]

C26_GivenAddress ==
  \A i \in table.live \ (table.moved \cup table.relocated) :
    get_object_address(table, i) = table.given[get_element(table, i)]

\* C26: as ids are allocated, freed and allocated again, an id in use holds
\* the address given at its latest allocation, unless the object was moved
\* since: by move_object, or by a growth of the table in a later allocation;
\* new_object_id never returns an id in use, and no two ids in use hold the
\* same address.
C26_FreeAndReallocate ==
  [](C26_GivenAddress /\ DistinctAddresses) /\ [][ReturnsFreeId]_vars

\* A freed id has been allocated again, for another address, while another id
\* stayed in use.
C26_Witness ==
  /\ table.last.op = "new_object_id"
  /\ ~table.last.growth.grown
  /\ \E b \in Cells : /\ table.blocks[b].id = table.last.id
                      /\ table.blocks[b].tag # "object"
  /\ table.live \ {table.last.id} # {}
  /\ table.relocated = {}

\* move_object(id, new_address) writes the slot of the id and nothing else.
MoveWritesOneSlot ==
  (table'.last.op = "move_object" /\ table' # table) =>
    /\ get_object_address(table', table'.last.id) = table'.last.address
    /\ get_object_address(table, table'.last.id) # table'.last.address
    /\ \A i \in Indices :
         i # get_element(table, table'.last.id) => table'.elems[i] = table.elems[i]
    /\ FreeStack(table') = FreeStack(table)
    /\ table'.length = table.length

\* A read returns what the slot holds and changes nothing.
ReadReturnsSlot ==
  (table'.last.op = "get_object_address" /\ table' # table) =>
    /\ table'.last.address = get_object_address(table, table'.last.id)
    /\ table'.elems = table.elems

\* The address of an id in use changes only in a call of move_object on it:
\* by the collector, or by grow_table for the object after the table.
ChangedByMoveOnly ==
  \A i \in table.live \cap table'.live :
    get_object_address(table', i) # get_object_address(table, i) =>
      \/ table'.last.op = "move_object" /\ table'.last.id = i
      \/ i \in Relocated(table'.last)

\* C27: after move_object(id, new_address) the slot of the id holds
\* new_address, every other slot, the free stack and the table length are as
\* before, and reads of an id return the same address until move_object is
\* called on that id.
C27_MoveObject == [][MoveWritesOneSlot /\ ReadReturnsSlot /\ ChangedByMoveOnly]_vars

\* An object has been moved and read while other ids were in use and free.
C27_Witness ==
  /\ table.last.op = "get_object_address"
  /\ table.last.id \in table.moved
  /\ table.live \ {table.last.id} # {}
  /\ table.free # FREE_STACK_END

\* The id is a skewed pointer to a slot of the table.
PointsIntoTable(t, id) ==
  /\ is_object_id(id)
  /\ unskew(id) >= t.base
  /\ unskew(id) < end(t)
  /\ (unskew(id) - t.base) % WordSize = 0

IdsPointIntoTable == \A id \in table.live : PointsIntoTable(table, id)

TableOnlyGrows ==
  /\ table'.base = table.base
  /\ table'.length >= table.length
  /\ \A id \in table.live : get_element(table', id) = get_element(table, id)
  /\ (table'.last.op = "new_object_id" /\ table' # table) =>
       PointsIntoTable(table', table'.last.id)

\* C28: over every sequence of new_object_id, free_object_id, move_object and
\* growths the base of the table stays where it is, its length never
\* decreases, an id handed out denotes the same slot as before, and every id
\* an allocation returns is an object id: a skewed pointer to a slot of the table.
C28_StableIdentities == [](IdsPointIntoTable) /\ [][TableOnlyGrows]_vars

\* The table has grown twice and the ids handed out before are still in use.
C28_Witness ==
  /\ table.last.op = "new_object_id"
  /\ table.last.growth.grown
  /\ table.length >= 3
  /\ Cardinality(table.live) >= 3

\* A call of new_object_id found the free stack empty and an object after the table.
GrowthRelocates ==
  /\ table'.last.op = "new_object_id"
  /\ table' # table
  /\ Relocated(table'.last) # {}

\* C29: when new_object_id finds the free stack empty and the block after the
\* table holds an object, the object keeps its id, the slot of the id holds a
\* fresh address at the top of the heap, the block there equals the block the
\* object had, and every other id in use holds the address it held, which is
\* at or above the new end of the table.
C29_GrowthKeepsObjects ==
  [][GrowthRelocates =>
       \A r \in Relocated(table'.last) :
         /\ table.free = FREE_STACK_END
         /\ r = table.blocks[end(table)].id
         /\ r \in table.live /\ r \in table'.live
         /\ get_object_address(table, r) = end(table)
         /\ get_object_address(table', r) > table.hp
         /\ get_object_address(table', r) < table'.hp
         /\ table'.blocks[get_object_address(table', r)] = table.blocks[end(table)]
         /\ \A i \in table.live \ {r} :
              /\ get_object_address(table', i) = get_object_address(table, i)
              /\ get_object_address(table', i) >= end(table')
              /\ table'.blocks[get_object_address(table', i)]
                   = table.blocks[get_object_address(table, i)]]_vars

\* A growth has moved an object away while other ids were in use, one of
\* them for an object that the collector had moved before.
C29_Witness ==
  /\ table.last.op = "new_object_id"
  /\ Relocated(table.last) # {}
  /\ (table.live \cap table.moved) \ (Relocated(table.last) \cup {table.last.id}) # {}

\* A call of new_object_id found the free stack empty and grew the table.
Grows ==
  /\ table'.last.op = "new_object_id"
  /\ table' # table
  /\ table'.last.growth.grown

\* The ids of the table entries from index lo up to hi - 1, lowest first.
RECURSIVE IdsOfRange(_, _, _)
IdsOfRange(t, lo, hi) ==
  IF hi <= lo THEN <<>> ELSE <<index_to_object_id(t, lo)>> \o IdsOfRange(t, lo + 1, hi)

\* C30: a growth extends the table by the size of the block after it; the new
\* entries, and nothing else, are on the free stack; heap_base is the new end
\* of the table; the id of a relocated object enters the young remembered set
\* exactly when its old address was below last_heap_pointer; and a filler or
\* free-space block is consumed: no block is copied and no entry in use changes.
C30_GrowthStep ==
  [][Grows =>
       /\ table.free = FREE_STACK_END
       /\ table.blocks[end(table)].size >= 1
       /\ table'.last.growth.block = table.blocks[end(table)]
       /\ table'.last.growth.length = table.length + table.blocks[end(table)].size
       /\ table'.length = table'.last.growth.length
       /\ table'.last.growth.free_stack
            = IdsOfRange(table, table.length, table'.last.growth.length)
       /\ table'.last.growth.heap_base = end(table')
       /\ table'.heap_base = end(table')
       /\ table'.remembered =
            table.remembered \cup
              { r \in Relocated(table'.last) : end(table) < table.last_hp }
       /\ table'.last.growth.remembered = table'.remembered
       /\ Relocated(table'.last) = {} =>
            /\ table'.last.growth.blocks = [table.blocks EXCEPT ![end(table)] = NoBlock]
            /\ \A i \in 0..(table.length - 1) :
                 table'.last.growth.elems[i] = table.elems[i]]_vars

\* A growth has moved an object of the old generation away and remembered its id.
C30_Witness ==
  /\ table.last.op = "new_object_id"
  /\ Relocated(table.last) # {}
  /\ Relocated(table.last) \subseteq table.remembered
  /\ table.last.growth.block.size = 2

\* A growth has consumed a block of free space.
FillerConsumed ==
  /\ table.last.op = "new_object_id"
  /\ table.last.growth.grown
  /\ table.last.growth.block.tag \in {"free", "filler"}

YieldedFrom(source) ==
  SelectSeq(visiting.yielded, LAMBDA y : y.from = source)

ValuesOf(seq) == [i \in 1..Len(seq) |-> seq[i].value]

InDynamicHeap(v) == is_ptr(v) /\ get_ptr(v) >= visiting.heap_base

\* C31: visit_roots yields the fields of the static-root boxes that point into
\* the dynamic heap (at or above heap_base), in the order of the static-root
\* array and once per box, and yields no static root whose field is a scalar or
\* points below heap_base.
C31_StaticRootsYielded ==
  visiting.op = "visit_roots" =>
    ValuesOf(YieldedFrom("static")) = SelectSeq(visiting.static_roots, InDynamicHeap)

\* A call over a box that points into the dynamic heap, followed by a box that
\* points into the static heap.
C31_Witness ==
  /\ visiting.op = "visit_roots"
  /\ Len(visiting.static_roots) = 2
  /\ InDynamicHeap(visiting.static_roots[1])
  /\ visiting.static_roots[2] = StaticPointer
  /\ Len(YieldedFrom("static")) = 1

HoldsTable ==
  visiting.continuation_table_location = "set" /\ is_ptr(visiting.continuation_table)

\* C32 as stated: the elements of the continuation table are yielded one by one,
\* in index order.
C32_Original ==
  visiting.op = "visit_roots" =>
    ValuesOf(YieldedFrom("continuation"))
      = IF HoldsTable THEN visiting.table_elems ELSE <<>>

\* C32: if continuation_table_location holds a pointer, visit_roots yields the
\* continuation table itself, in one call of the visitor (its elements are left
\* to whoever scans the array); if the location holds no pointer, nothing is
\* yielded for it.
C32_TableYieldedAsOneRoot ==
  visiting.op = "visit_roots" =>
    ValuesOf(YieldedFrom("continuation"))
      = IF HoldsTable THEN <<visiting.continuation_table>> ELSE <<>>

\* A call with a continuation table of two elements.
C32_Witness ==
  /\ visiting.op = "visit_roots"
  /\ HoldsTable
  /\ Len(visiting.table_elems) = 2
  /\ Len(YieldedFrom("continuation")) = 1

TimesYielded(v) ==
  Cardinality({ i \in 1..Len(visiting.yielded) :
                  visiting.yielded[i] = [from |-> "remembered", value |-> v] })

\* C33: a remembered set handed to visit_roots yields every value inserted into
\* it exactly once, however often the value was inserted, and nothing else;
\* without a remembered set nothing is yielded for it.
C33_RememberedSetYielded ==
  visiting.op = "visit_roots" =>
    /\ \A v \in DynamicPointers :
         TimesYielded(v) = IF v \in Range(visiting.inserted) THEN 1 ELSE 0
    /\ Len(YieldedFrom("remembered")) = Cardinality(Range(visiting.inserted))
    /\ ~visiting.remembered_set.present => YieldedFrom("remembered") = <<>>

\* A call with a remembered set that has grown and into which one value was
\* inserted twice.
C33_Witness ==
  /\ visiting.op = "visit_roots"
  /\ Len(visiting.remembered_set.buckets) > InitialTableLength
  /\ Len(visiting.inserted) > Cardinality(Range(visiting.inserted))
  /\ Len(YieldedFrom("remembered")) > InitialTableLength

Surviving == Allocated \ ToBeEvacuated

\* C34: evacuation and update resume where the last increment stopped: between
\* two increments of Evacuate the objects of the flagged partitions that the
\* stored HeapIteratorState has passed have been handed out exactly once and the
\* others not yet; the phase is Update only after every object of every flagged
\* partition has been handed out exactly once; and between two increments of
\* Update no object outside the flagged partitions has been handed out twice,
\* none before the stored position has been handed out, and every object the
\* position has passed has been handed out unless the mutator allocated it
\* behind the walker (it is unmarked then).
C34_ResumableWalk ==
  /\ (phase = "Evacuate" /\ trap = "none") =>
       \A o \in ToBeEvacuated : walked[o].evacuate = IF Passed(o) THEN 1 ELSE 0
  /\ (phase = "Update" /\ trap = "none") =>
       /\ \A o \in ToBeEvacuated : walked[o].evacuate = 1 /\ walked[o].update = 0
       /\ \A o \in Surviving :
            /\ walked[o].update <= 1
            /\ ~Passed(o) => walked[o].update = 0
            /\ (Passed(o) /\ walked[o].update = 0) => ~heap[o].marked

\* An evacuation increment has stopped inside a flagged partition, after its
\* first object and before its second.
C34_Witness ==
  /\ phase = "Evacuate"
  /\ trap = "none"
  /\ parts[iter.pi].evacuate
  /\ iter.cur > 0
  /\ walked[AddrOf(iter.pi, 0)].evacuate = 1
  /\ walked[current_object([iter |-> iter])].evacuate = 0

\* An update increment has stopped inside a partition; every object of the
\* flagged partitions was handed out by the evacuation before.
C34_UpdateWitness ==
  /\ phase = "Update"
  /\ trap = "none"
  /\ ToBeEvacuated # {}
  /\ iter.pi < NumPartitions
  /\ iter.cur > 0
  /\ walked[AddrOf(iter.pi, 0)].update = 1

\* should_start is evaluated: a schedule point with the collector not running.
ShouldStartCalled == trap = "none" /\ stack = {} /\ ~running(phase)

\* C36: whenever should_start is evaluated (a schedule point in Pause or Stop,
\* also after a cycle that freed evacuated partitions) the heap occupation is at
\* least LAST_HEAP_OCCUPATION, so that occupation - LAST_HEAP_OCCUPATION does
\* not underflow.
C36_NoUnderflow ==
  ShouldStartCalled => occupied_size(parts) >= last_occ


C35_ExactWitness ==
  /\ stream.planned.taken
  /\ stream.state = "split"
  /\ stream.planned.excess = 0
  /\ stream.planned.sum > blob_block_size(InitialStreamFilled - to_bytes(BlobHeaderWords))

\* C37: the assertion of mark_new_allocation never fails: neither the stream
\* that alloc_stream hands to the barrier nor the blob that Stream::split
\* hands to it carries the mark bit when the barrier runs.
C37_NewAllocationUnmarked == stream.trap # "mark_new_allocation"

C37_Witness ==
  /\ stream.state = "split"
  /\ stream.op = "split"
  /\ stream.phase \in {"Mark", "Evacuate"}
  /\ stream.marked.front
  /\ stream.marked.blob
  /\ stream.trap = "none"

C39_GrowWithinBlobs ==
  (region # NoRegion /\ region.last.op = "region_grow" /\ region.last.new_pages <= MaxU32) =>
    /\ region.last.returned = region.last.old_page_count
    /\ region.page_count = region.last.old_page_count + region.last.new_pages
    /\ Len(region.vec_pages) = 2 * ((region.page_count + 127) \div 128)
    /\ \A i \in 1..Len(region.last.old_vec_pages) :
         i <= Len(region.vec_pages) /\ region.vec_pages[i] = region.last.old_vec_pages[i]
    /\ region.last.copied <= Len(region.last.old_vec_pages)
    /\ region.last.copied <= Len(region.vec_pages)


\* The ids of the slots of the table.
TableSlots(t) == { index_to_object_id(t, index) : index \in 0..(t.length - 1) }

\* The slots on the free stack.
FreeSlots(t) == { FreeStack(t)[i] : i \in 1..Len(FreeStack(t)) }

Distinct(seq) == \A i, j \in 1..Len(seq) : i # j => seq[i] # seq[j]

\* The chain from the top of the free stack runs over slots of the table and
\* ends in FREE_STACK_END before it could repeat a slot.
FreeChainEnds(t) ==
  /\ Len(FreeStack(t)) <= t.length
  /\ FreeSlots(t) \subseteq TableSlots(t)
  /\ Distinct(FreeStack(t))
  /\ FreeStack(t) # <<>> =>
       read_element(t, FreeStack(t)[Len(FreeStack(t))]) = FREE_STACK_END

\* C38: after every operation on the object table the free stack is an acyclic
\* chain of distinct slots that ends in FREE_STACK_END, the free slots and the
\* slots of the ids in use are disjoint and together are the `length` slots of
\* the table, and every slot in use holds an address at or after the end of
\* the table.
C38_TableStructure ==
  table # NoTable =>
    /\ FreeChainEnds(table)
    /\ FreeSlots(table) \cap table.live = {}
    /\ FreeSlots(table) \cup table.live = TableSlots(table)
    /\ Cardinality(table.live) + Len(FreeStack(table)) = table.length
    /\ \A id \in table.live : get_object_address(table, id) >= end(table)

\* The table has grown, ids have been freed and others are in use.
C38_Witness ==
  /\ table # NoTable
  /\ table.length >= 3
  /\ table.last.op = "free_object_id"
  /\ Len(FreeStack(table)) >= 2
  /\ Cardinality(table.live) >= 2

=============================================================================
